---- MODULE Spec2Model ----
(***************************************************************************)
(* Neba bytecode pipeline: the single-pass compiler (AST -> Chunk) and the *)
(* stack VM that executes the chunk.  The compiler is a set of operators   *)
(* over a compiler-state record; the VM is a state machine whose actions   *)
(* each execute one instruction of the active frame.                       *)
(***************************************************************************)
EXTENDS Integers, Sequences, FiniteSets, TLC

\* ------------------------------------------------------------------------
\* Bounds of the model (sizes of the enumerated inputs)
\* ------------------------------------------------------------------------

\* statements in the body of the long `if` block of program "big_if"
BigBlock == 8192
\* cap on the frame stack for call paths on which the code has no cap
FrameCap == 258
\* lines of a source text of the lexer, besides its last line
MaxLines == 3
\* lines of a source text of the parser
MaxParseLines == 3
\* cap on the errors of a parse that does not end
ErrorCap == 4
\* bits of an Int of the model (the i64 of Value::Int, scaled down)
IntBits == 8
\* the longest array a program of the model may build by push
ArrayCap == 6

\* ------------------------------------------------------------------------
\* Program constants
\* ------------------------------------------------------------------------

STACK_MAX == 4096
FRAMES_MAX == 256
\* interpreter.rs: the deepest nesting of calls of the tree-walker
MAX_DEPTH == 50

\* Prec (parser.rs)
PrecNone == 0
PrecOr == 1
PrecAnd == 2
PrecCompare == 4
PrecRange == 5
PrecBitOr == 6
PrecBitXor == 7
PrecBitAnd == 8
PrecShift == 9
PrecAdd == 10
PrecMul == 11
PrecPower == 13

\* ------------------------------------------------------------------------
\* Small helpers
\* ------------------------------------------------------------------------

\* i64::MIN and i64::MAX in the width of the model
MinInt == -(2 ^ (IntBits - 1))
MaxInt == 2 ^ (IntBits - 1) - 1

MaxOf(S) == CHOOSE x \in S : \A y \in S : y <= x

Last(s) == s[Len(s)]

Front(s) == SubSeq(s, 1, Len(s) - 1)

\* the empty name -> value map
EmptyMap == [n \in {} |-> 0]

MapPut(m, k, v) == [n \in (DOMAIN m) \cup {k} |-> IF n = k THEN v ELSE m[n]]

\* integer casts
ToU8(v) == v % 256
ToU16(v) == v % 65536
ToI16(u) == IF u >= 32768 THEN u - 65536 ELSE u
\* isize -> usize: a negative value wraps to the top of the range.  The range
\* is kept at 2^31 (the widest integers TLC computes with); every wrapped
\* value is still far beyond the length of any code sequence.
ToUsize(v) == IF v < 0 THEN (2147483647 + v) + 1 ELSE v

\* ------------------------------------------------------------------------
\* Op (opcode.rs): the enum in declaration order; the byte of an opcode is
\* its position, counted from 0
\* ------------------------------------------------------------------------

Ops ==
  << "Const", "True", "False", "Nil", "Pop", "Dup", "PopN",
     "LoadLocal", "StoreLocal", "LoadUpval", "StoreUpval",
     "LoadGlobal", "StoreGlobal", "DefGlobal",
     "Add", "Sub", "Mul", "Div", "IntDiv", "Mod", "Pow", "Neg",
     "BitAnd", "BitOr", "BitXor", "BitNot", "Shl", "Shr",
     "Eq", "Ne", "Lt", "Le", "Gt", "Ge", "Not",
     "Jump", "JumpFalse", "JumpTrue", "JumpFalsePeek", "JumpTruePeek",
     "MakeClosure", "Call", "CallMethod", "Return", "ReturnNil",
     "MakeArray", "GetIndex", "SetIndex", "MakeRange",
     "GetField", "SetField", "MakeInstance",
     "MakeSome", "MakeOk", "MakeErr",
     "In", "NotIn", "Is",
     "IsSome", "IsNone", "IsOk", "IsErr", "Unwrap", "MatchLit", "MatchRange",
     "IntoIter", "IterNext", "BuildStr", "ToStr", "Nop", "Halt" >>

OpByte(op) == (CHOOSE i \in 1..Len(Ops) : Ops[i] = op) - 1

from_u8(b) == IF b <= OpByte("Halt") THEN Ops[b + 1] ELSE "bad"

operand_bytes(op) ==
  CASE op = "Const" -> 2
    [] op = "PopN" -> 1
    [] op = "LoadLocal" -> 1
    [] op = "StoreLocal" -> 1
    [] op = "LoadUpval" -> 1
    [] op = "StoreUpval" -> 1
    [] op = "LoadGlobal" -> 2
    [] op = "StoreGlobal" -> 2
    [] op = "DefGlobal" -> 3
    [] op = "Jump" -> 2
    [] op = "JumpFalse" -> 2
    [] op = "JumpTrue" -> 2
    [] op = "JumpFalsePeek" -> 2
    [] op = "JumpTruePeek" -> 2
    [] op = "MakeClosure" -> 2
    [] op = "Call" -> 1
    [] op = "CallMethod" -> 3
    [] op = "MakeArray" -> 2
    [] op = "MakeRange" -> 1
    [] op = "GetField" -> 2
    [] op = "SetField" -> 2
    [] op = "MakeInstance" -> 2
    [] op = "IsSome" -> 2
    [] op = "IsNone" -> 2
    [] op = "IsOk" -> 2
    [] op = "IsErr" -> 2
    [] op = "MatchLit" -> 4
    [] op = "MatchRange" -> 7
    [] op = "IterNext" -> 4
    [] op = "BuildStr" -> 2
    [] OTHER -> 0

\* ------------------------------------------------------------------------
\* Value (value.rs).  Every value is a record [t, v]; heap values (Array,
\* Instance) carry the index of their cell in the heap.
\* ------------------------------------------------------------------------

IntV(n) == [t |-> "Int", v |-> n]
\* Float: the floats of the model are the multiples of one half, and v
\* counts the halves
FloatV(h) == [t |-> "Float", v |-> h]
BoolV(b) == [t |-> "Bool", v |-> b]
NoneV == [t |-> "None", v |-> 0]
StrV(s) == [t |-> "Str", v |-> s]
SomeV(x) == [t |-> "Some", v |-> x]
OkV(x) == [t |-> "Ok", v |-> x]
ErrV(x) == [t |-> "Err", v |-> x]
ClosureV(proto, upvalues) ==
  [t |-> "Closure", v |-> [proto |-> proto, upvalues |-> upvalues]]
InstanceV(id) == [t |-> "Instance", v |-> id]
\* Array(Rc<RefCell<Vec<Value>>>): v is the index of the shared cell
ArrayV(id) == [t |-> "Array", v |-> id]
\* NativeFn(name, fn): a function of the standard library
NativeV(name) == [t |-> "NativeFn", v |-> name]

is_truthy(x) ==
  CASE x.t = "Bool" -> x.v
    [] x.t = "Int" -> x.v # 0
    [] x.t = "Float" -> x.v # 0
    [] x.t = "Str" -> x.v # ""
    [] x.t = "None" -> FALSE
    [] OTHER -> TRUE

\* PartialEq for Value: closures and instances are never equal
RECURSIVE ValueEq(_, _)
ValueEq(a, b) ==
  CASE a.t = "Int" /\ b.t = "Int" -> a.v = b.v
    [] a.t = "Float" /\ b.t = "Float" -> a.v = b.v
    [] a.t = "Int" /\ b.t = "Float" -> 2 * a.v = b.v
    [] a.t = "Float" /\ b.t = "Int" -> a.v = 2 * b.v
    [] a.t = "Bool" /\ b.t = "Bool" -> a.v = b.v
    [] a.t = "Str" /\ b.t = "Str" -> a.v = b.v
    [] a.t = "None" /\ b.t = "None" -> TRUE
    [] a.t = "Some" /\ b.t = "Some" -> ValueEq(a.v, b.v)
    [] a.t = "Ok" /\ b.t = "Ok" -> ValueEq(a.v, b.v)
    [] a.t = "Err" /\ b.t = "Err" -> ValueEq(a.v, b.v)
    [] OTHER -> FALSE

\* ------------------------------------------------------------------------
\* Chunk (chunk.rs).  code is the byte sequence (offset o is code[o + 1]).
\* ops[o + 1] tells whether the byte at offset o was written by emit, that
\* is, whether it is an opcode byte.
\* ------------------------------------------------------------------------

NewChunk ==
  [code |-> <<>>, constants |-> <<>>, names |-> <<>>, fn_protos |-> <<>>,
   ops |-> <<>>]

emit(ch, op) ==
  [ch EXCEPT !.code = Append(@, OpByte(op)), !.ops = Append(@, TRUE)]

emit_u8(ch, b) == [ch EXCEPT !.code = Append(@, b), !.ops = Append(@, FALSE)]

emit_u16(ch, v) ==
  [ch EXCEPT !.code = @ \o << v % 256, v \div 256 >>,
             !.ops = @ \o << FALSE, FALSE >>]

emit_i16(ch, v) == emit_u16(ch, ToU16(v))

\* emit_jump returns the offset of the placeholder: Len(code) + 1 before it
emit_jump(ch, op) == emit_i16(emit(ch, op), 0)

SetI16(code, patch, offset) ==
  LET v == ToU16(offset)
  IN [code EXCEPT ![patch + 1] = v % 256, ![patch + 2] = v \div 256]

patch_jump(ch, patch) ==
  [ch EXCEPT !.code = SetI16(@, patch, Len(ch.code) - (patch + 2))]

emit_loop(ch, loop_start) ==
  LET c1 == emit(ch, "Jump")
  IN emit_i16(c1, loop_start - Len(c1.code) - 2)

values_equal(a, b) ==
  /\ a.t = b.t
  /\ a.t \in {"Int", "Float", "Bool", "Str", "None"}
  /\ a.t # "None" => a.v = b.v

ConstIndex(ch, v) ==
  LET hit == {i \in 1..Len(ch.constants) : values_equal(ch.constants[i], v)}
  IN IF hit = {} THEN ToU16(Len(ch.constants))
     ELSE ToU16((CHOOSE i \in hit : \A j \in hit : i <= j) - 1)

add_const(ch, v) ==
  IF \E i \in 1..Len(ch.constants) : values_equal(ch.constants[i], v)
  THEN ch
  ELSE [ch EXCEPT !.constants = Append(@, v)]

NameIndex(ch, name) ==
  LET hit == {i \in 1..Len(ch.names) : ch.names[i] = name}
  IN IF hit = {} THEN ToU16(Len(ch.names))
     ELSE ToU16((CHOOSE i \in hit : \A j \in hit : i <= j) - 1)

add_name(ch, name) ==
  IF \E i \in 1..Len(ch.names) : ch.names[i] = name
  THEN ch
  ELSE [ch EXCEPT !.names = Append(@, name)]

read_u16(code, offset) == code[offset + 1] + 256 * code[offset + 2]

read_i16(code, offset) == ToI16(read_u16(code, offset))

\* ------------------------------------------------------------------------
\* AST (ast.rs).  Nodes are records tagged by k; an Option is a sequence of
\* length 0 or 1.
\* ------------------------------------------------------------------------

EInt(n) == [k |-> "Int", n |-> n]
EStr(s) == [k |-> "Str", s |-> s]
EError == [k |-> "Error"]
EFloat(h) == [k |-> "Float", h |-> h]
EUnary(op, operand) == [k |-> "Unary", op |-> op, operand |-> operand]
EBool(b) == [k |-> "Bool", b |-> b]
ENone == [k |-> "None"]
EIdent(name) == [k |-> "Ident", name |-> name]
EBinary(op, l, r) == [k |-> "Binary", op |-> op, left |-> l, right |-> r]
ERange(start, end, inclusive) ==
  [k |-> "Range", start |-> start, end |-> end, inclusive |-> inclusive]
EIf(cond, then_block, elifs, else_block) ==
  [k |-> "If", condition |-> cond, then_block |-> then_block,
   elif_branches |-> elifs, else_block |-> else_block]
EMatch(subject, arms) == [k |-> "Match", subject |-> subject, arms |-> arms]
Arm(pattern, body) == [pattern |-> pattern, body |-> body]
ECall(callee, args) ==
  [k |-> "Call", callee |-> callee, args |-> args, kwargs |-> <<>>]
EField(object, field) == [k |-> "Field", object |-> object, field |-> field]
ESome(e) == [k |-> "Some", inner |-> e]
EOk(e) == [k |-> "Ok", inner |-> e]
EErr(e) == [k |-> "Err", inner |-> e]

EArray(items) == [k |-> "Array", items |-> items]
EIndex(object, index) == [k |-> "Index", object |-> object, index |-> index]
SExpr(e) == [k |-> "Expr", e |-> e]
SLet(name, value) == [k |-> "Let", name |-> name, value |-> value]
SVar(name, value) == [k |-> "Var", name |-> name, value |-> value]
SAssign(target, op, value) ==
  [k |-> "Assign", target |-> target, op |-> op, value |-> value]
Param(name, default) == [name |-> name, default |-> default]
SFn(name, params, body) ==
  [k |-> "Fn", name |-> name, params |-> params, body |-> body]
SClass(name, fields, methods) ==
  [k |-> "Class", name |-> name, fields |-> fields, methods |-> methods,
   impls |-> <<>>]
Field(name, default) == [name |-> name, default |-> default]
SFor(var, iterable, body) ==
  [k |-> "For", var |-> var, iterable |-> iterable, body |-> body]
SWhile(cond, body) == [k |-> "While", condition |-> cond, body |-> body]
SReturn(value) == [k |-> "Return", value |-> value]
SBreak == [k |-> "Break"]
SContinue == [k |-> "Continue"]
SPass == [k |-> "Pass"]

PWildcard == [k |-> "Wildcard"]
PError == [k |-> "Error"]
PIdent(name) == [k |-> "Ident", name |-> name]
PLiteral(lit) == [k |-> "Literal", lit |-> lit]
PConstructor(name, inner) == [k |-> "Constructor", name |-> name, inner |-> inner]
POr(pats) == [k |-> "Or", pats |-> pats]
PRange(start, end, inclusive) ==
  [k |-> "Range", start |-> start, end |-> end, inclusive |-> inclusive]

\* ------------------------------------------------------------------------
\* Compiler (compiler.rs).  c is the compiler state; err is the message of
\* the CompileError that aborted the compilation ("" while there is none).
\* ------------------------------------------------------------------------

NewCompiler(depth) ==
  [chunk |-> NewChunk, locals |-> <<>>, scope_depth |-> depth,
   break_patches |-> <<>>, continue_patches |-> <<>>, err |-> ""]

Local(name, depth, mutable) == [name |-> name, depth |-> depth, mutable |-> mutable]

CErr(c, msg) == IF c.err = "" THEN [c EXCEPT !.err = msg] ELSE c

CE(c, op) == [c EXCEPT !.chunk = emit(@, op)]
CE8(c, b) == [c EXCEPT !.chunk = emit_u8(@, b)]
CE16(c, v) == [c EXCEPT !.chunk = emit_u16(@, v)]
CJump(c, op) == [c EXCEPT !.chunk = emit_jump(@, op)]
CPatch(c, patch) == [c EXCEPT !.chunk = patch_jump(@, patch)]

\* offset of the next byte to be emitted
Here(c) == Len(c.chunk.code)

RECURSIVE PatchAll(_, _)
PatchAll(c, patches) ==
  IF patches = <<>> THEN c
  ELSE PatchAll(CPatch(c, patches[1]), Tail(patches))

RECURSIVE PatchAllTo(_, _, _)
PatchAllTo(c, patches, target) ==
  IF patches = <<>> THEN c
  ELSE PatchAllTo(
         [c EXCEPT !.chunk.code = SetI16(@, patches[1], target - (patches[1] + 2))],
         Tail(patches), target)

EmitConst(c, v) ==
  LET i == ConstIndex(c.chunk, v)
  IN CE16(CE([c EXCEPT !.chunk = add_const(@, v)], "Const"), i)

const_eval(e) ==
  CASE e.k = "Int" -> << IntV(e.n) >>
    [] e.k = "Float" -> << FloatV(e.h) >>
    [] e.k = "Bool" -> << BoolV(e.b) >>
    [] e.k = "Str" -> << StrV(e.s) >>
    [] e.k = "None" -> << NoneV >>
    [] OTHER -> <<>>

\* let idx = chunk.add_name(name); emit(op); emit_u16(idx)
EmitNamed(c, op, name) ==
  CE16(CE([c EXCEPT !.chunk = add_name(@, name)], op), NameIndex(c.chunk, name))

define_var(c, name, mutable) ==
  IF c.scope_depth = 0
  THEN CE8(EmitNamed(c, "DefGlobal", name), IF mutable THEN 1 ELSE 0)
  ELSE [c EXCEPT !.locals = Append(@, Local(name, c.scope_depth, mutable))]

resolve_local(c, name) ==
  LET hit == {i \in 1..Len(c.locals) : c.locals[i].name = name}
  IN IF hit = {} THEN [found |-> FALSE, idx |-> 0, mutable |-> FALSE]
     ELSE [found |-> TRUE, idx |-> ToU8(MaxOf(hit) - 1),
           mutable |-> c.locals[MaxOf(hit)].mutable]

emit_load(c, name) ==
  IF resolve_local(c, name).found
  THEN CE8(CE(c, "LoadLocal"), resolve_local(c, name).idx)
  ELSE EmitNamed(c, "LoadGlobal", name)

emit_store(c, name) ==
  IF resolve_local(c, name).found
  THEN IF ~resolve_local(c, name).mutable
       THEN CErr(c, "cannot assign to immutable variable")
       ELSE CE8(CE(c, "StoreLocal"), resolve_local(c, name).idx)
  ELSE EmitNamed(c, "StoreGlobal", name)

\* number of locals at the end of the list declared at the current depth
ScopeCount(c) ==
  LET other == {i \in 1..Len(c.locals) : c.locals[i].depth # c.scope_depth}
  IN Len(c.locals) - (IF other = {} THEN 0 ELSE MaxOf(other))

DropLocals(c, count) ==
  [c EXCEPT !.locals = SubSeq(@, 1, Len(@) - count)]

push_scope(c) == [c EXCEPT !.scope_depth = @ + 1]

\* Pop for one local, PopN count for more
EmitPops(c, count) ==
  IF count = 0 THEN c
  ELSE IF count = 1 THEN CE(c, "Pop")
  ELSE CE8(CE(c, "PopN"), ToU8(count))

pop_scope(c) ==
  [EmitPops(DropLocals(c, ScopeCount(c)), ScopeCount(c))
     EXCEPT !.scope_depth = @ - 1]

\* the end of compile_block_expr and of a match arm: the locals of the
\* scope are forgotten and nothing is emitted
CloseScope(c) ==
  [DropLocals(c, ScopeCount(c)) EXCEPT !.scope_depth = @ - 1]

\* break_patches / continue_patches .last_mut().ok_or(..)?.push(patch)
PushPatch(c, list, patch, msg) ==
  IF Len(c[list]) = 0 THEN CErr(c, msg)
  ELSE [c EXCEPT ![list][Len(c[list])] = Append(@, patch)]

\* v bound to the parameter of F (a local variable of the source); v is
\* computed before F is entered
With(v, F(_)) == CHOOSE y \in {F(x) : x \in {v}} : TRUE

emit_compound_op(c, op) ==
  CASE op = "AddAssign" -> CE(c, "Add")
    [] op = "SubAssign" -> CE(c, "Sub")
    [] op = "MulAssign" -> CE(c, "Mul")
    [] op = "DivAssign" -> CE(c, "Div")
    [] op = "ModAssign" -> CE(c, "Mod")
    [] OTHER -> c

BinaryOpcode(op) ==
  CASE op = "BitAnd" -> "BitAnd" [] op = "BitOr" -> "BitOr"
    [] op = "BitXor" -> "BitXor" [] OTHER -> op

RECURSIVE compile_expr(_, _)
RECURSIVE compile_stmt(_, _)
RECURSIVE CompileRange(_, _, _, _)
RECURSIVE CompileArgs(_, _, _)
RECURSIVE compile_assign(_, _, _, _)
RECURSIVE compile_binary(_, _, _, _)
RECURSIVE compile_if(_, _)
RECURSIVE CompileElifs(_, _, _, _)
RECURSIVE LastStmt(_, _)
RECURSIVE compile_block_expr(_, _)
RECURSIVE compile_match(_, _, _)
RECURSIVE CompileArms(_, _, _, _)
RECURSIVE compile_pattern_check(_, _, _)
RECURSIVE CheckInner(_, _, _, _)
RECURSIVE CheckOr(_, _, _, _, _)
RECURSIVE compile_pattern_bind(_, _)
RECURSIVE BindInner(_, _, _)
RECURSIVE compile_while(_, _, _)
RECURSIVE compile_for(_, _, _, _)
RECURSIVE compile_fn_def(_, _, _, _)
RECURSIVE compile_class(_, _, _, _)
RECURSIVE CtorFields(_, _, _)
RECURSIVE CtorMethods(_, _, _)

\* the statements ss[lo..hi] in order; the first CompileError ends the loop
CompileRange(c, ss, lo, hi) ==
  IF lo > hi THEN c
  ELSE IF lo = hi THEN compile_stmt(c, ss[lo])
  ELSE With(CompileRange(c, ss, lo, (lo + hi) \div 2), LAMBDA c1 :
         IF c1.err # "" THEN c1
         ELSE CompileRange(c1, ss, (lo + hi) \div 2 + 1, hi))

\* the expressions es[i..] in order
CompileArgs(c, es, i) ==
  IF i > Len(es) THEN c ELSE CompileArgs(compile_expr(c, es[i]), es, i + 1)

compile_stmt(before, s) ==
  With(before, LAMBDA c :
    CASE s.k = "Expr" -> CE(compile_expr(c, s.e), "Pop")
      [] s.k = "Let" -> define_var(compile_expr(c, s.value), s.name, FALSE)
      [] s.k = "Var" -> define_var(compile_expr(c, s.value), s.name, TRUE)
      [] s.k = "Assign" -> compile_assign(c, s.target, s.op, s.value)
      [] s.k = "Fn" ->
           define_var(compile_fn_def(c, s.name, s.params, s.body), s.name, FALSE)
      [] s.k = "Return" ->
           CE(IF s.value = <<>> THEN CE(c, "Nil") ELSE compile_expr(c, s.value[1]),
              "Return")
      [] s.k = "While" -> compile_while(c, s.condition, s.body)
      [] s.k = "For" -> compile_for(c, s.var, s.iterable, s.body)
      [] s.k = "Break" ->
           PushPatch(CJump(c, "Jump"), "break_patches", Here(c) + 1,
                     "break outside loop")
      [] s.k = "Continue" ->
           PushPatch(CJump(c, "Jump"), "continue_patches", Here(c) + 1,
                     "continue outside loop")
      [] s.k = "Class" -> compile_class(c, s.name, s.fields, s.methods)
      [] OTHER -> c)  \* Pass, Trait, Impl, Mod, Use

compile_assign(c, target, op, value) ==
  CASE target.k = "Ident" ->
         emit_store(IF op # "Assign"
                    THEN emit_compound_op(
                           compile_expr(emit_load(c, target.name), value), op)
                    ELSE compile_expr(c, value),
                    target.name)
    [] target.k = "Index" ->
         CE(IF op # "Assign"
            THEN emit_compound_op(
                   compile_expr(
                     CE(compile_expr(
                          compile_expr(
                            CE(compile_expr(compile_expr(c, target.object),
                                            target.index), "Dup"),
                            target.object),
                          target.index), "GetIndex"),
                     value), op)
            ELSE compile_expr(compile_expr(compile_expr(c, target.object),
                                           target.index), value),
            "SetIndex")
    [] target.k = "Field" ->
         \* name_idx is taken before the value is compiled
         EmitNamed(
           IF op # "Assign"
           THEN emit_compound_op(
                  compile_expr(
                    EmitNamed(CE(compile_expr(c, target.object), "Dup"),
                              "GetField", target.field),
                    value), op)
           ELSE compile_expr(
                  With(compile_expr(c, target.object), LAMBDA c1 :
                         [c1 EXCEPT !.chunk = add_name(@, target.field)]),
                  value),
           "SetField", target.field)
    [] OTHER -> CErr(c, "invalid assignment target")

compile_expr(before, e) ==
  With(before, LAMBDA c :
    CASE e.k = "Int" -> EmitConst(c, IntV(e.n))
      [] e.k = "Float" -> EmitConst(c, FloatV(e.h))
      [] e.k = "Bool" -> CE(c, IF e.b THEN "True" ELSE "False")
      [] e.k = "None" -> CE(c, "Nil")
      [] e.k = "Str" -> EmitConst(c, StrV(e.s))
      [] e.k = "Ident" -> emit_load(c, e.name)
      [] e.k = "Unary" -> CE(compile_expr(c, e.operand), e.op)
      [] e.k = "Binary" -> compile_binary(c, e.op, e.left, e.right)
      [] e.k = "If" -> compile_if(c, e)
      [] e.k = "Match" -> compile_match(c, e.subject, e.arms)
      [] e.k = "Call" ->
           IF e.callee.k = "Field"
           THEN CE8(EmitNamed(
                      CompileArgs(
                        CompileArgs(compile_expr(c, e.callee.object), e.args, 1),
                        e.kwargs, 1),
                      "CallMethod", e.callee.field),
                    ToU8(Len(e.args) + Len(e.kwargs)))
           ELSE CE8(CE(CompileArgs(
                         CompileArgs(compile_expr(c, e.callee), e.args, 1),
                         e.kwargs, 1),
                       "Call"),
                    ToU8(Len(e.args) + Len(e.kwargs)))
      [] e.k = "Field" -> EmitNamed(compile_expr(c, e.object), "GetField", e.field)
      [] e.k = "Index" ->
           CE(compile_expr(compile_expr(c, e.object), e.index), "GetIndex")
      [] e.k = "Array" ->
           CE16(CE(CompileArgs(c, e.items, 1), "MakeArray"), ToU16(Len(e.items)))
      [] e.k = "Range" ->
           CE8(CE(compile_expr(compile_expr(c, e.start), e.end), "MakeRange"),
               IF e.inclusive THEN 1 ELSE 0)
      [] e.k = "Some" -> CE(compile_expr(c, e.inner), "MakeSome")
      [] e.k = "Ok" -> CE(compile_expr(c, e.inner), "MakeOk")
      [] e.k = "Err" -> CE(compile_expr(c, e.inner), "MakeErr")
      [] e.k \in {"Spawn", "Await"} -> compile_expr(c, e.inner)
      [] e.k = "Error" -> CErr(c, "AST error node")
      [] OTHER -> CErr(c, "unmodelled"))  \* FStr

compile_binary(c, op, left, right) ==
  IF op \in {"And", "Or"}
  THEN With(compile_expr(c, left), LAMBDA c1 :
         CPatch(compile_expr(
                  CE(CJump(c1, IF op = "And" THEN "JumpFalsePeek"
                               ELSE "JumpTruePeek"), "Pop"),
                  right),
                Here(c1) + 1))
  ELSE CE(compile_expr(compile_expr(c, left), right), BinaryOpcode(op))

\* the elif branches from the i-th on; ends collects the end patches
CompileElifs(c, elifs, i, ends) ==
  IF i > Len(elifs) THEN [c |-> c, ends |-> ends]
  ELSE With(compile_expr(c, elifs[i].cond), LAMBDA c1 :
       With(compile_block_expr(CJump(c1, "JumpFalse"), elifs[i].block), LAMBDA c2 :
         CompileElifs(CPatch(CJump(c2, "Jump"), Here(c1) + 1), elifs, i + 1,
                      Append(ends, Here(c2) + 1))))

compile_if(c, e) ==
  With(compile_expr(c, e.condition), LAMBDA c1 :
  With(compile_block_expr(CJump(c1, "JumpFalse"), e.then_block), LAMBDA c2 :
  With(CompileElifs(CPatch(CJump(c2, "Jump"), Here(c1) + 1), e.elif_branches, 1,
                    << Here(c2) + 1 >>), LAMBDA r :
    PatchAll(IF e.else_block = <<>> THEN CE(r.c, "Nil")
             ELSE compile_block_expr(r.c, e.else_block[1]),
             r.ends))))

\* the last statement of a block or of the script: an expression statement
\* leaves its value, anything else is followed by Nil
LastStmt(c, s) ==
  IF s.k = "Expr" THEN compile_expr(c, s.e) ELSE CE(compile_stmt(c, s), "Nil")

compile_block_expr(c, stmts) ==
  IF Len(stmts) = 0 THEN CE(pop_scope(push_scope(c)), "Nil")
  ELSE CloseScope(LastStmt(CompileRange(push_scope(c), stmts, 1, Len(stmts) - 1),
                           stmts[Len(stmts)]))

\* one arm, its pattern already checked: r is the result of the check
CompileArm(r, arm) ==
  CloseScope(compile_block_expr(
               compile_pattern_bind(push_scope(r.c), arm.pattern), arm.body))

\* the arms from the i-th on; ends collects the end patches
CompileArms(c, arms, i, ends) ==
  IF i > Len(arms) THEN [c |-> c, ends |-> ends]
  ELSE With(compile_pattern_check(c, arms[i].pattern, <<>>), LAMBDA r :
       With(CompileArm(r, arms[i]), LAMBDA c3 :
         CompileArms(PatchAll(CJump(c3, "Jump"), r.fails), arms, i + 1,
                     Append(ends, Here(c3) + 1))))

compile_match(c, subject, arms) ==
  With(CompileArms(compile_expr(c, subject), arms, 1, <<>>), LAMBDA r :
    PatchAll(CE(r.c, "Nil"), r.ends))

LiteralValue(lit) ==
  CASE lit.k = "Int" -> << IntV(lit.n) >>
    [] lit.k = "Bool" -> << BoolV(lit.b) >>
    [] lit.k = "Str" -> << StrV(lit.s) >>
    [] lit.k = "None" -> << NoneV >>
    [] OTHER -> <<>>

CheckOp(name) ==
  CASE name = "Some" -> "IsSome" [] name = "None" -> "IsNone"
    [] name = "Ok" -> "IsOk" [] name = "Err" -> "IsErr" [] OTHER -> ""

RangeBound(p) == p.k = "Literal" /\ p.lit.k = "Int"

\* emit(op); let patch = chunk.len(); emit_i16(0): the placeholder of a
\* check is the two bytes after the opcode
EmitCheck(c, op) == [CE(c, op) EXCEPT !.chunk = emit_i16(@, 0)]

\* MatchLit [u16 cidx] [i16 0]; the patch recorded is the offset of cidx
EmitMatchLit(c, v) ==
  [CE16(CE([c EXCEPT !.chunk = add_const(@, v)], "MatchLit"),
        ConstIndex(c.chunk, v))
     EXCEPT !.chunk = emit_i16(@, 0)]

\* MatchRange [u16 lo] [u16 hi] [u8 incl] [i16 0], lo and hi already
\* in the constants
EmitMatchRange(c, lo, hi, inclusive) ==
  [CE8(CE16(CE16(CE(c, "MatchRange"), ConstIndex(c.chunk, lo)),
            ConstIndex(c.chunk, hi)),
       IF inclusive THEN 1 ELSE 0)
     EXCEPT !.chunk = emit_i16(@, 0)]

\* result: the compiler state and the extended list of failure patches
compile_pattern_check(c, pat, fails) ==
  CASE pat.k = "Literal" ->
         IF LiteralValue(pat.lit) = <<>>
         THEN [c |-> CErr(c, "invalid literal in pattern"), fails |-> fails]
         ELSE [c |-> EmitMatchLit(c, LiteralValue(pat.lit)[1]),
               fails |-> Append(fails, Here(c) + 1)]
    [] pat.k = "Constructor" ->
         IF CheckOp(pat.name) = ""
         THEN [c |-> CErr(c, "unknown constructor"), fails |-> fails]
         ELSE IF pat.name # "None" /\ pat.inner # <<>>
              THEN CheckInner(CE(EmitCheck(c, CheckOp(pat.name)), "Unwrap"),
                              pat.inner, 1, Append(fails, Here(c) + 1))
              ELSE [c |-> EmitCheck(c, CheckOp(pat.name)),
                    fails |-> Append(fails, Here(c) + 1)]
    [] pat.k = "Range" ->
         IF ~RangeBound(pat.start) \/ ~RangeBound(pat.end)
         THEN [c |-> CErr(c, "range pattern requires Int"), fails |-> fails]
         ELSE [c |-> EmitMatchRange(
                       [c EXCEPT !.chunk = add_const(
                                   add_const(@, IntV(pat.start.lit.n)),
                                   IntV(pat.end.lit.n))],
                       IntV(pat.start.lit.n), IntV(pat.end.lit.n),
                       pat.inclusive),
               fails |-> Append(fails, Here(c) + 1)]
    [] pat.k = "Or" ->
         With(CheckOr(c, pat.pats, 1, <<>>, <<>>), LAMBDA r :
           [c |-> PatchAll(r.c, r.success), fails |-> fails \o r.sub_fail])
    [] OTHER -> [c |-> c, fails |-> fails]  \* Wildcard, Ident, Error

CheckInner(c, pats, i, fails) ==
  IF i > Len(pats) THEN [c |-> c, fails |-> fails]
  ELSE With(compile_pattern_check(c, pats[i], fails), LAMBDA r :
         CheckInner(r.c, pats, i + 1, r.fails))

CheckOr(c, pats, i, sub_fail, success) ==
  IF i > Len(pats) THEN [c |-> c, sub_fail |-> sub_fail, success |-> success]
  ELSE With(compile_pattern_check(IF i > 1 THEN PatchAll(c, sub_fail) ELSE c,
                                  pats[i], IF i > 1 THEN <<>> ELSE sub_fail),
            LAMBDA r :
              CheckOr(CJump(r.c, "Jump"), pats, i + 1, r.fails,
                      Append(success, Here(r.c) + 1)))

compile_pattern_bind(c, pat) ==
  CASE pat.k = "Ident" ->
         [CE(c, "Dup") EXCEPT !.locals = Append(@, Local(pat.name, c.scope_depth, TRUE))]
    [] pat.k = "Constructor" /\ pat.inner # <<>> ->
         IF pat.name \in {"Some", "Ok", "Err"}
         THEN BindInner(CE(CE(c, "Dup"), "Unwrap"), pat.inner, 1)
         ELSE c
    [] OTHER -> c

BindInner(c, pats, i) ==
  IF i > Len(pats) THEN c
  ELSE BindInner(compile_pattern_bind(c, pats[i]), pats, i + 1)

\* break_patches.push(vec![]); continue_patches.push(vec![])
OpenLoop(c) ==
  [c EXCEPT !.break_patches = Append(@, <<>>),
            !.continue_patches = Append(@, <<>>)]

\* the continue jumps of the innermost loop go back to loop_start
CloseContinues(c, loop_start) ==
  PatchAllTo([c EXCEPT !.continue_patches = Front(@)],
             Last(c.continue_patches), loop_start)

\* the break jumps of the innermost loop land here
CloseBreaks(c) ==
  PatchAll([c EXCEPT !.break_patches = Front(@)], Last(c.break_patches))

EmitLoop(c, loop_start) == [c EXCEPT !.chunk = emit_loop(@, loop_start)]

\* c0 is the state at loop_start, c1 the state after the condition
WhileBody(c0, c1, body) ==
  CloseBreaks(
    CPatch(EmitLoop(CloseContinues(
                      pop_scope(CompileRange(push_scope(CJump(c1, "JumpFalse")),
                                             body, 1, Len(body))),
                      Here(c0)),
                    Here(c0)),
           Here(c1) + 1))

compile_while(c, condition, body) ==
  With(OpenLoop(c), LAMBDA c0 :
    WhileBody(c0, compile_expr(c0, condition), body))

\* the implicit locals are named __iter_<slot> and __pos_<slot> in the
\* source; no identifier can resolve to them, so the suffix is not kept
ForLocals(c1) ==
  [c1 EXCEPT !.locals = @ \o << Local("__iter_", c1.scope_depth, TRUE),
                                Local("__pos_", c1.scope_depth, TRUE) >>]

\* c4 is the state at loop_start; iter_local is the slot of __iter_ and the
\* loop variable is the last local
ForBody(c4, iter_local, body) ==
  CloseBreaks(pop_scope(
    CPatch(EmitLoop(CloseContinues(
                      pop_scope(CompileRange(
                        push_scope(
                          [CE8(CE8(CE(c4, "IterNext"), iter_local),
                               ToU8(Len(c4.locals) - 1))
                             EXCEPT !.chunk = emit_i16(@, 0)]),
                        body, 1, Len(body))),
                      Here(c4)),
                    Here(c4)),
           Here(c4) + 3)))

\* c1 is the state after IntoIter, inside the scope of the loop
ForHead(c1, var, body) ==
  ForBody(CE([EmitConst(ForLocals(c1), IntV(0))
                EXCEPT !.locals = Append(@, Local(var, c1.scope_depth, TRUE))],
             "Nil"),
          ToU8(Len(c1.locals)), body)

compile_for(c, var, iterable, body) ==
  ForHead(push_scope(CE(compile_expr(OpenLoop(c), iterable), "IntoIter")),
          var, body)

FnProto(name, arity, max_arity, chunk, defaults) ==
  [name |-> name, arity |-> arity, max_arity |-> max_arity, chunk |-> chunk,
   defaults |-> defaults]

\* the positions of p in 1..Len(params) that satisfy the filter, as a count
CountParams(params, needs_no_default) ==
  Cardinality({i \in 1..Len(params) :
                 /\ params[i].name # "self"
                 /\ needs_no_default => params[i].default = <<>>})

\* the locals of the parameters from the i-th on
ParamLocals(params, i) ==
  [j \in 1..(Len(params) - i + 1) |->
     Local(params[i + j - 1].name, 1, params[i + j - 1].name # "self")]

\* the defaults of the parameters from the i-th on that have one: the
\* constant, or None for a default that is no constant
ParamDefaults(params, i) ==
  LET given == SelectSeq(SubSeq(params, i, Len(params)),
                         LAMBDA p : p.default # <<>>)
  IN [j \in 1..Len(given) |->
        IF const_eval(given[j].default[1]) # <<>>
        THEN const_eval(given[j].default[1])[1]
        ELSE NoneV]

\* chunk.add_fn_proto(proto); emit(MakeClosure); emit_u16(proto_idx)
EmitClosure(c, proto) ==
  CE16(CE([c EXCEPT !.chunk.fn_protos = Append(@, proto)], "MakeClosure"),
       ToU16(Len(c.chunk.fn_protos)))

\* fc is the compiler of the body, after the trailing ReturnNil
CloseFn(c, fc, name, params) ==
  IF fc.err # "" THEN CErr(c, fc.err)
  ELSE EmitClosure(c, FnProto(name, CountParams(params, TRUE),
                              CountParams(params, FALSE), fc.chunk,
                              ParamDefaults(params, 1)))

compile_fn_def(c, name, params, body) ==
  CloseFn(c,
          CE(CompileRange([NewCompiler(1) EXCEPT !.locals = ParamLocals(params, 1)],
                          body, 1, Len(body)),
             "ReturnNil"),
          name, params)

\* the initial value of a field: Nil, a constant or the compiled expression
FieldValue(c, f) ==
  IF f.default = <<>> THEN CE(c, "Nil")
  ELSE IF const_eval(f.default[1]) # <<>>
       THEN EmitConst(c, const_eval(f.default[1])[1])
       ELSE compile_expr(c, f.default[1])

\* field initialisers of the constructor, from the i-th field on
CtorFields(ctor, fields, i) ==
  IF i > Len(fields) THEN ctor
  ELSE CtorFields(EmitNamed(FieldValue(CE(ctor, "Dup"), fields[i]),
                            "SetField", fields[i].name),
                  fields, i + 1)

\* method closures stored in the instance, from the i-th method on
CtorMethods(ctor, methods, i) ==
  IF i > Len(methods) THEN ctor
  ELSE IF methods[i].k # "Fn" THEN CtorMethods(ctor, methods, i + 1)
  ELSE CtorMethods(
         EmitNamed(compile_fn_def(CE(ctor, "Dup"), methods[i].name,
                                  methods[i].params, methods[i].body),
                   "SetField", methods[i].name),
         methods, i + 1)

\* parameters of the first method named __init__, without self
InitParams(methods) ==
  LET hit == {i \in 1..Len(methods) :
                methods[i].k = "Fn" /\ methods[i].name = "__init__"}
  IN IF hit = {} THEN <<>>
     ELSE SelectSeq(methods[CHOOSE i \in hit : \A j \in hit : i <= j].params,
                    LAMBDA q : q.name # "self")

RECURSIVE LoadParams(_, _, _)
LoadParams(ctor, n, i) ==
  IF i >= n THEN ctor
  ELSE IF i = n - 1 THEN CE8(CE(ctor, "LoadLocal"), ToU8(i))
  ELSE With(LoadParams(ctor, (i + n) \div 2, i), LAMBDA c1 :
         LoadParams(c1, n, (i + n) \div 2))

\* the block that calls __init__; compile_class contains it twice
InitCall(ctor, init_params) ==
  IF init_params = <<>> THEN ctor
  ELSE CE(CE8(EmitNamed(
                LoadParams(
                  CE([ctor EXCEPT !.locals =
                        @ \o [i \in 1..Len(init_params) |->
                                Local(init_params[i].name, 1, TRUE)]],
                     "Dup"),
                  Len(init_params), 0),
                "CallMethod", "__init__"),
              ToU8(Len(init_params))),
          "Pop")

\* ctor is the compiler of the constructor, after its Return
CloseClass(c, ctor, name, init_params) ==
  IF ctor.err # "" THEN CErr(c, ctor.err)
  ELSE define_var(
         EmitConst(c, ClosureV(
                        FnProto(name,
                                Cardinality({i \in 1..Len(init_params) :
                                               init_params[i].default = <<>>}),
                                Len(init_params), ctor.chunk, <<>>),
                        <<>>)),
         name, FALSE)

compile_class(c, name, fields, methods) ==
  CloseClass(c,
             CE(InitCall(
                  InitCall(
                    CtorMethods(
                      CtorFields(
                        CE16(CE([NewCompiler(1) EXCEPT !.chunk = add_name(@, name)],
                                "MakeInstance"), 0),
                        fields, 1),
                      methods, 1),
                    InitParams(methods)),
                  InitParams(methods)),
                "Return"),
             name, InitParams(methods))

compile(stmts) ==
  IF Len(stmts) = 0 THEN CE(CE(NewCompiler(0), "Nil"), "Halt")
  ELSE CE(LastStmt(CompileRange(NewCompiler(0), stmts, 1, Len(stmts) - 1),
                   stmts[Len(stmts)]),
          "Halt")

\* ------------------------------------------------------------------------
\* VM (vm.rs).  vm is the record of the machine: the value stack, the call
\* frames, the globals, the heap of instances (a Value::Instance is the
\* index of its cell) and the outcome of run_chunk:
\*   running  the loop of run_chunk goes on
\*   done     step returned Ok(Some(result))
\*   error    step returned Err(err); run_chunk cleared frames and stack
\*   panic    the process aborted (index out of bounds, unwrap on None,
\*            arithmetic overflow in a build with overflow checks)
\* A frame carries one history field: via, the opcode that pushed it.
\* ------------------------------------------------------------------------

\* stdlib::register_globals: the natives are immutable globals; of the
\* sixteen only push is called by the programs of the model
register_globals(globals) ==
  MapPut(globals, "push", [v |-> NativeV("push"), mutable |-> FALSE])

CallFrame(chunk, base, name, upvalues, via) ==
  [chunk |-> chunk, ip |-> 0, base |-> base, name |-> name,
   upvalues |-> upvalues, via |-> via]

NewVm(chunk) ==
  [stack |-> <<>>,
   frames |-> << CallFrame(chunk, 0, "<script>", <<>>, "script") >>,
   globals |-> register_globals(EmptyMap), heap |-> <<>>,
   status |-> "running", err |-> "", result |-> NoneV]

Fail(vm, e) ==
  [vm EXCEPT !.status = "error", !.err = e, !.frames = <<>>, !.stack = <<>>]

Panic(vm, why) == [vm EXCEPT !.status = "panic", !.err = why]

Unmodelled(vm) == [vm EXCEPT !.status = "unmodelled"]

\* step returned Ok(Some(v)): run_chunk pops a frame (if any) and returns
Finish(vm, v) ==
  [vm EXCEPT !.status = "done", !.result = v,
             !.frames = IF @ = <<>> THEN @ ELSE Front(@)]

Push(vm, v) == [vm EXCEPT !.stack = Append(@, v)]

\* frame.ip = (ip as isize + offset as isize) as usize
JumpBy(vm, offset) ==
  [vm EXCEPT !.frames[Len(vm.frames)].ip = ToUsize(@ + offset)]

\* number of operand bytes the handler of op reads (read_u8!, read_u16!,
\* read_i16!) before it does anything else
StepReads(op) ==
  CASE op \in {"Const", "LoadGlobal", "StoreGlobal", "MakeArray", "GetField",
               "SetField", "MakeInstance", "BuildStr"} -> 2
    [] op \in {"PopN", "LoadLocal", "StoreLocal", "LoadUpval", "StoreUpval",
               "Call", "MakeRange"} -> 1
    [] op = "DefGlobal" -> 3
    [] op \in {"Jump", "JumpFalse", "JumpTrue", "JumpFalsePeek", "JumpTruePeek",
               "IsSome", "IsNone", "IsOk", "IsErr"} -> 2
    [] op = "MakeClosure" -> 3
    [] op = "CallMethod" -> 3
    [] op = "MatchLit" -> 4
    [] op = "MatchRange" -> 7
    [] op = "IterNext" -> 4
    [] OTHER -> 0

Abs(n) == IF n < 0 THEN -n ELSE n

\* i64 division and remainder: truncation toward zero
TruncDiv(a, b) ==
  IF (a < 0) # (b < 0) THEN -(Abs(a) \div Abs(b)) ELSE Abs(a) \div Abs(b)

TruncRem(a, b) == a - b * TruncDiv(a, b)

\* f64::floor of the quotient a / b
FloorDiv(a, b) == IF b < 0 THEN (-a) \div (-b) ELSE a \div b

Ok(v) == [k |-> "ok", v |-> v]
Err(e) == [k |-> "err", e |-> e]
Overflow(what) == [k |-> "panic", why |-> what]

\* the two's complement value of n in the width of Int
WrapInt(n) == ((n - MinInt) % (MaxInt - MinInt + 1)) + MinInt

\* `a + b`, `a - b`, `a * b`, `-n` on i64: a result outside the range panics
\* in a build with overflow checks and wraps in a build without
IntResult(n, build, what) ==
  CASE MinInt <= n /\ n <= MaxInt -> Ok(IntV(n))
    [] build = "debug" -> Overflow(what)
    [] OTHER -> Ok(IntV(WrapInt(n)))

\* Value::as_float, in halves; <<>> is Option::None
as_float(x) ==
  CASE x.t = "Int" -> << 2 * x.v >>
    [] x.t = "Float" -> << x.v >>
    [] OTHER -> <<>>

Numeric(l, r) == {l.t, r.t} \subseteq {"Int", "Float"}

op_add(l, r, build) ==
  CASE l.t = "Int" /\ r.t = "Int" ->
         IntResult(l.v + r.v, build, "add with overflow")
    [] Numeric(l, r) -> Ok(FloatV(as_float(l)[1] + as_float(r)[1]))
    [] l.t = "Str" /\ r.t = "Str" -> Ok(StrV(l.v \o r.v))
    [] OTHER -> Err("TypeError")

op_sub(l, r, build) ==
  CASE l.t = "Int" /\ r.t = "Int" ->
         IntResult(l.v - r.v, build, "subtract with overflow")
    [] Numeric(l, r) -> Ok(FloatV(as_float(l)[1] - as_float(r)[1]))
    [] OTHER -> Err("TypeError")

\* a product of two floats that is no multiple of one half is outside the
\* floats of the model
op_mul(l, r, build) ==
  CASE l.t = "Int" /\ r.t = "Int" ->
         IntResult(l.v * r.v, build, "multiply with overflow")
    [] Numeric(l, r) ->
         IF (as_float(l)[1] * as_float(r)[1]) % 2 = 0
         THEN Ok(FloatV((as_float(l)[1] * as_float(r)[1]) \div 2))
         ELSE [k |-> "unmodelled"]
    [] {l.t, r.t} = {"Int", "Str"} -> [k |-> "unmodelled"]
    [] OTHER -> Err("TypeError")

\* i64::MIN / -1 and i64::MIN % -1 panic in every build
op_intdiv(l, r) ==
  CASE r.t = "Int" /\ r.v = 0 -> Err("DivisionByZero")
    [] l.t = "Int" /\ r.t = "Int" ->
         IF l.v = MinInt /\ r.v = -1 THEN Overflow("divide with overflow")
         ELSE Ok(IntV(TruncDiv(l.v, r.v)))
    [] as_float(r) = <<>> -> Overflow("unwrap on None")
    [] as_float(r)[1] = 0 -> Err("DivisionByZero")
    [] as_float(l) = <<>> -> Overflow("unwrap on None")
    [] OTHER -> Ok(IntV(FloorDiv(as_float(l)[1], as_float(r)[1])))

op_mod(l, r) ==
  CASE r.t = "Int" /\ r.v = 0 -> Err("DivisionByZero")
    [] l.t = "Int" /\ r.t = "Int" ->
         IF l.v = MinInt /\ r.v = -1
         THEN Overflow("remainder with overflow")
         ELSE Ok(IntV(TruncRem(l.v, r.v)))
    [] as_float(r) = <<>> -> Overflow("unwrap on None")
    [] as_float(r)[1] = 0 -> Err("DivisionByZero")
    [] as_float(l) = <<>> -> Overflow("unwrap on None")
    [] OTHER -> Ok(FloatV(TruncRem(as_float(l)[1], as_float(r)[1])))

\* partial_cmp: the sign of o is the Ordering (numbers compare in halves);
\* k = "none" is Option::None.  Of the order of Str only that of equal
\* strings and of the empty string is modelled.
Ordering(o) == [k |-> "some", o |-> o]

partial_cmp(l, r) ==
  CASE Numeric(l, r) -> Ordering(as_float(l)[1] - as_float(r)[1])
    [] l.t = "Str" /\ r.t = "Str" ->
         CASE l.v = r.v -> Ordering(0)
           [] l.v = "" -> Ordering(-1)
           [] r.v = "" -> Ordering(1)
           [] OTHER -> [k |-> "unmodelled", o |-> 0]
    [] OTHER -> [k |-> "none", o |-> 0]

\* <, <=, >, >= on the Option of partial_cmp: None makes each of them false
Compare(op, l, r) ==
  LET c == partial_cmp(l, r)
  IN CASE c.k = "none" -> Ok(BoolV(FALSE))
       [] c.k = "unmodelled" -> [k |-> "unmodelled"]
       [] OTHER ->
            Ok(BoolV(CASE op = "Lt" -> c.o < 0 [] op = "Le" -> c.o <= 0
                       [] op = "Gt" -> c.o > 0 [] OTHER -> c.o >= 0))

BinaryResult(op, l, r, build) ==
  CASE op = "Add" -> op_add(l, r, build)
    [] op = "Sub" -> op_sub(l, r, build)
    [] op = "Mul" -> op_mul(l, r, build)
    [] op = "IntDiv" -> op_intdiv(l, r)
    [] op = "Mod" -> op_mod(l, r)
    [] op = "Eq" -> Ok(BoolV(ValueEq(l, r)))
    [] op = "Ne" -> Ok(BoolV(~ValueEq(l, r)))
    [] op \in {"Lt", "Le", "Gt", "Ge"} -> Compare(op, l, r)
    [] op = "Is" -> Ok(BoolV(l.t = r.t))
    [] OTHER -> [k |-> "unmodelled"]  \* Div, Pow, bit operators, In, NotIn

BinaryOps ==
  {"Add", "Sub", "Mul", "Div", "IntDiv", "Mod", "Pow", "BitAnd", "BitOr",
   "BitXor", "Shl", "Shr", "Eq", "Ne", "Lt", "Le", "Gt", "Ge", "In", "NotIn",
   "Is"}

\* let r = pop!(); let l = pop!(); push!(...)
OpBinary(vm, op, build) ==
  IF Len(vm.stack) < 2 THEN Fail(vm, "stack underflow")
  ELSE LET n == Len(vm.stack)
           res == BinaryResult(op, vm.stack[n - 1], vm.stack[n], build)
           vm1 == [vm EXCEPT !.stack = SubSeq(@, 1, n - 2)]
       IN CASE res.k = "ok" -> Push(vm1, res.v)
            [] res.k = "err" -> Fail(vm1, res.e)
            [] res.k = "panic" -> Panic(vm1, res.why)
            [] OTHER -> Unmodelled(vm1)

\* Op::Neg
OpNeg(vm1, v, build) ==
  CASE v.t = "Int" ->
         LET res == IntResult(-v.v, build, "negate with overflow")
         IN IF res.k = "ok" THEN Push(vm1, res.v) ELSE Panic(vm1, res.why)
    [] v.t = "Float" -> Push(vm1, FloatV(-v.v))
    [] OTHER -> Fail(vm1, "TypeError")

\* let v = pop!(); push!(f(v)) for Neg, Not, MakeSome, MakeOk, MakeErr, Unwrap
OpUnary(vm, op, build) ==
  IF vm.stack = <<>> THEN Fail(vm, "stack underflow")
  ELSE LET v == Last(vm.stack)
           vm1 == [vm EXCEPT !.stack = Front(@)]
       IN CASE op = "Neg" -> OpNeg(vm1, v, build)
            [] op = "Not" -> Push(vm1, BoolV(~is_truthy(v)))
            [] op = "MakeSome" -> Push(vm1, SomeV(v))
            [] op = "MakeOk" -> Push(vm1, OkV(v))
            [] op = "MakeErr" -> Push(vm1, ErrV(v))
            [] op = "Unwrap" ->
                 IF v.t \in {"Some", "Ok", "Err"} THEN Push(vm1, v.v)
                 ELSE Fail(vm1, "TypeError")
            [] OTHER -> Unmodelled(vm1)  \* BitNot, ToStr

UnaryOps ==
  {"Neg", "Not", "MakeSome", "MakeOk", "MakeErr", "Unwrap", "BitNot",
   "ToStr"}

\* The handlers below take the machine with frame.ip already past the
\* operands, the chunk and base of the executing frame, and the offset `at`
\* of the first operand byte.

OpConst(vm, chunk, at) ==
  LET idx == read_u16(chunk.code, at)
  IN IF idx >= Len(chunk.constants) THEN Panic(vm, "index out of bounds")
     ELSE Push(vm, chunk.constants[idx + 1])

OpPop(vm) ==
  IF vm.stack = <<>> THEN Fail(vm, "stack underflow")
  ELSE [vm EXCEPT !.stack = Front(@)]

OpDup(vm) ==
  IF vm.stack = <<>> THEN Fail(vm, "stack empty") ELSE Push(vm, Last(vm.stack))

\* len - n underflows when n > len: a panic with overflow checks, otherwise
\* a wrapped length that makes truncate a no-op
OpPopN(vm, chunk, at, build) ==
  LET n == chunk.code[at + 1]
      len == Len(vm.stack)
  IN IF n > len
     THEN IF build = "debug" THEN Panic(vm, "subtract with overflow") ELSE vm
     ELSE [vm EXCEPT !.stack = SubSeq(@, 1, len - n)]

OpLoadLocal(vm, chunk, base, at) ==
  LET idx == chunk.code[at + 1]
  IN IF base + idx >= Len(vm.stack) THEN Panic(vm, "index out of bounds")
     ELSE Push(vm, vm.stack[base + idx + 1])

OpStoreLocal(vm, chunk, base, at) ==
  LET idx == chunk.code[at + 1]
  IN IF vm.stack = <<>> THEN Fail(vm, "stack underflow")
     ELSE IF base + idx >= Len(vm.stack) - 1 THEN Panic(vm, "index out of bounds")
     ELSE [vm EXCEPT !.stack = [Front(@) EXCEPT ![base + idx + 1] = Last(vm.stack)]]

OpLoadGlobal(vm, chunk, at) ==
  LET idx == read_u16(chunk.code, at)
  IN IF idx >= Len(chunk.names) THEN Panic(vm, "index out of bounds")
     ELSE IF chunk.names[idx + 1] \notin DOMAIN vm.globals
     THEN Fail(vm, "UndefinedVariable")
     ELSE Push(vm, vm.globals[chunk.names[idx + 1]].v)

\* StoreGlobal without the test of the mutable flag
StoreAnyGlobal(vm, chunk, at) ==
  LET idx == read_u16(chunk.code, at)
  IN IF idx >= Len(chunk.names) THEN Panic(vm, "index out of bounds")
     ELSE LET name == chunk.names[idx + 1]
          IN IF vm.stack = <<>> THEN Fail(vm, "stack underflow")
             ELSE IF name \notin DOMAIN vm.globals THEN Fail(vm, "UndefinedVariable")
             ELSE [vm EXCEPT !.globals[name].v = Last(vm.stack),
                             !.stack = Front(@)]

OpStoreGlobal(vm, chunk, at) ==
  LET idx == read_u16(chunk.code, at)
  IN IF idx >= Len(chunk.names) THEN Panic(vm, "index out of bounds")
     ELSE LET name == chunk.names[idx + 1]
          IN IF vm.stack = <<>> THEN Fail(vm, "stack underflow")
             ELSE IF name \notin DOMAIN vm.globals THEN Fail(vm, "UndefinedVariable")
             ELSE IF ~vm.globals[name].mutable THEN Fail(vm, "AssignImmutable")
             ELSE [vm EXCEPT !.globals[name].v = Last(vm.stack),
                             !.stack = Front(@)]

OpDefGlobal(vm, chunk, at) ==
  LET idx == read_u16(chunk.code, at)
      mutable == chunk.code[at + 3] # 0
  IN IF idx >= Len(chunk.names) THEN Panic(vm, "index out of bounds")
     ELSE IF vm.stack = <<>> THEN Fail(vm, "stack underflow")
     ELSE [vm EXCEPT !.globals = MapPut(@, chunk.names[idx + 1],
                                        [v |-> Last(vm.stack), mutable |-> mutable]),
                     !.stack = Front(@)]

Instance(class_name) == [class_name |-> class_name, fields |-> EmptyMap]

OpMakeInstance(vm, chunk, at) ==
  LET idx == read_u16(chunk.code, at)
  IN IF idx >= Len(chunk.names) THEN Panic(vm, "index out of bounds")
     ELSE Push([vm EXCEPT !.heap = Append(@, Instance(chunk.names[idx + 1]))],
               InstanceV(Len(vm.heap) + 1))

OpGetField(vm, chunk, at) ==
  LET idx == read_u16(chunk.code, at)
  IN IF idx >= Len(chunk.names) THEN Panic(vm, "index out of bounds")
     ELSE IF vm.stack = <<>> THEN Fail(vm, "stack underflow")
     ELSE LET name == chunk.names[idx + 1]
              obj == Last(vm.stack)
              vm1 == [vm EXCEPT !.stack = Front(@)]
          IN CASE obj.t = "Instance" ->
                    IF name \in DOMAIN vm.heap[obj.v].fields
                    THEN Push(vm1, vm.heap[obj.v].fields[name])
                    ELSE Fail(vm1, "UnknownField")
               [] obj.t = "Str" -> Unmodelled(vm1)
               [] OTHER -> Fail(vm1, "UnknownField")

OpSetField(vm, chunk, at) ==
  LET idx == read_u16(chunk.code, at)
      n == Len(vm.stack)
  IN IF idx >= Len(chunk.names) THEN Panic(vm, "index out of bounds")
     ELSE IF n < 2 THEN Fail(vm, "stack underflow")
     ELSE LET obj == vm.stack[n - 1]
              vm1 == [vm EXCEPT !.stack = SubSeq(@, 1, n - 2)]
          IN IF obj.t = "Instance"
             THEN [vm1 EXCEPT !.heap[obj.v].fields =
                                MapPut(@, chunk.names[idx + 1], vm.stack[n])]
             ELSE Fail(vm1, "TypeError")

\* the cell of an array: the Vec behind the Rc
ArrayCell(items) == [items |-> items]

\* let start = self.stack.len() - count; drain(start..): with count above
\* the length the subtraction or the drain aborts
OpMakeArray(vm, chunk, at) ==
  LET count == read_u16(chunk.code, at)
      len == Len(vm.stack)
  IN IF count > len THEN Panic(vm, "subtract with overflow")
     ELSE Push([vm EXCEPT !.stack = SubSeq(@, 1, len - count),
                          !.heap = Append(@, ArrayCell(
                                     SubSeq(vm.stack, len - count + 1, len)))],
               ArrayV(Len(vm.heap) + 1))

\* (s..e) or (s..=e) collected into a new array
OpMakeRange(vm, chunk, at) ==
  LET inclusive == chunk.code[at + 1] # 0
      n == Len(vm.stack)
  IN IF n < 2 THEN Fail(vm, "stack underflow")
     ELSE LET start == vm.stack[n - 1]
              end == vm.stack[n]
              vm1 == [vm EXCEPT !.stack = SubSeq(@, 1, n - 2)]
          IN IF start.t = "Int" /\ end.t = "Int"
             THEN LET last_v == IF inclusive THEN end.v ELSE end.v - 1
                      count == IF last_v < start.v THEN 0
                               ELSE last_v - start.v + 1
                  IN Push([vm1 EXCEPT !.heap = Append(@, ArrayCell(
                             [i \in 1..count |-> IntV(start.v + i - 1)]))],
                          ArrayV(Len(vm.heap) + 1))
             ELSE Fail(vm1, "TypeError")

\* Ok(a) is << a >>, Err(IndexOutOfBounds) is << >>
resolve_idx(i, len) ==
  LET a == IF i < 0 THEN len + i ELSE i
  IN IF a < 0 \/ a >= len THEN << >> ELSE << a >>

eval_index(vm, obj, idx) ==
  IF idx.t # "Int" THEN Fail(vm, "TypeError")
  ELSE CASE obj.t = "Array" ->
              LET items == vm.heap[obj.v].items
                  a == resolve_idx(idx.v, Len(items))
              IN IF a = << >> THEN Fail(vm, "IndexOutOfBounds")
                 ELSE Push(vm, items[a[1] + 1])
         [] obj.t = "Str" -> Unmodelled(vm)
         [] OTHER -> Fail(vm, "TypeError")

OpGetIndex(vm) ==
  LET n == Len(vm.stack)
  IN IF n < 2 THEN Fail(vm, "stack underflow")
     ELSE eval_index([vm EXCEPT !.stack = SubSeq(@, 1, n - 2)],
                     vm.stack[n - 1], vm.stack[n])

\* pops the value, the index and the object and pushes nothing
OpSetIndex(vm) ==
  LET n == Len(vm.stack)
  IN IF n < 3 THEN Fail(vm, "stack underflow")
     ELSE LET val == vm.stack[n]
              idx_v == vm.stack[n - 1]
              obj == vm.stack[n - 2]
              vm1 == [vm EXCEPT !.stack = SubSeq(@, 1, n - 3)]
          IN IF obj.t = "Array" /\ idx_v.t = "Int"
             THEN LET i == resolve_idx(idx_v.v, Len(vm.heap[obj.v].items))
                  IN IF i = << >> THEN Fail(vm1, "IndexOutOfBounds")
                     ELSE [vm1 EXCEPT !.heap[obj.v].items[i[1] + 1] = val]
             ELSE Fail(vm1, "TypeError")

\* an Array is pushed back as it is (the same cell); the characters of a
\* Str are not modelled
OpIntoIter(vm) ==
  IF vm.stack = <<>> THEN Fail(vm, "stack underflow")
  ELSE LET v == Last(vm.stack)
           vm1 == [vm EXCEPT !.stack = Front(@)]
       IN CASE v.t = "Array" -> Push(vm1, v)
            [] v.t = "Str" -> Unmodelled(vm1)
            [] OTHER -> Fail(vm1, "TypeError")

\* `*n as usize` of a negative position is a huge index: iteration over
StackPos(x) == IF x.t = "Int" THEN (IF x.v < 0 THEN MaxInt ELSE x.v) ELSE 0

OpIterNext(vm, chunk, base, at) ==
  LET iter_local == chunk.code[at + 1]
      var_local == chunk.code[at + 2]
      offset == read_i16(chunk.code, at + 2)
      pos_local == iter_local + 1
      n == Len(vm.stack)
  IN IF base + pos_local >= n THEN Panic(vm, "index out of bounds")
     ELSE LET pos == StackPos(vm.stack[base + pos_local + 1])
              arr == vm.stack[base + iter_local + 1]
          IN IF arr.t # "Array" THEN Fail(vm, "TypeError")
             ELSE LET items == vm.heap[arr.v].items
                  IN IF pos >= Len(items) THEN JumpBy(vm, offset)
                     ELSE IF base + var_local >= n
                     THEN Panic(vm, "index out of bounds")
                     ELSE [vm EXCEPT
                             !.stack = [[@ EXCEPT ![base + var_local + 1] =
                                                    items[pos + 1]]
                                          EXCEPT ![base + pos_local + 1] =
                                                    IntV(pos + 1)]]

\* the conditional jumps and pattern checks: Taken tells whether the
\* offset is applied; JumpFalse and JumpTrue pop the tested value
OpJump(vm, chunk, at) == JumpBy(vm, read_i16(chunk.code, at))

OpJumpPop(vm, chunk, at, op) ==
  IF vm.stack = <<>> THEN Fail(vm, "stack underflow")
  ELSE LET v == Last(vm.stack)
           vm1 == [vm EXCEPT !.stack = Front(@)]
       IN IF is_truthy(v) = (op = "JumpTrue")
          THEN JumpBy(vm1, read_i16(chunk.code, at))
          ELSE vm1

PeekTaken(op, v) ==
  CASE op = "JumpFalsePeek" -> ~is_truthy(v)
    [] op = "JumpTruePeek" -> is_truthy(v)
    [] op = "IsSome" -> v.t # "Some"
    [] op = "IsNone" -> v.t # "None"
    [] op = "IsOk" -> v.t # "Ok"
    [] OTHER -> v.t # "Err"

OpJumpPeek(vm, chunk, at, op) ==
  IF vm.stack = <<>> THEN Fail(vm, "stack empty")
  ELSE IF PeekTaken(op, Last(vm.stack)) THEN JumpBy(vm, read_i16(chunk.code, at))
  ELSE vm

OpMatchLit(vm, chunk, at) ==
  LET cidx == read_u16(chunk.code, at)
      offset == read_i16(chunk.code, at + 2)
  IN IF cidx >= Len(chunk.constants) THEN Panic(vm, "index out of bounds")
     ELSE IF vm.stack = <<>> THEN Fail(vm, "stack empty")
     ELSE IF ~ValueEq(Last(vm.stack), chunk.constants[cidx + 1])
     THEN JumpBy(vm, offset)
     ELSE vm

OpMatchRange(vm, chunk, at) ==
  LET lo_idx == read_u16(chunk.code, at)
      hi_idx == read_u16(chunk.code, at + 2)
      incl == chunk.code[at + 5] # 0
      offset == read_i16(chunk.code, at + 5)
  IN IF lo_idx >= Len(chunk.constants) THEN Panic(vm, "index out of bounds")
     ELSE IF chunk.constants[lo_idx + 1].t # "Int" THEN Fail(vm, "TypeError")
     ELSE IF hi_idx >= Len(chunk.constants) THEN Panic(vm, "index out of bounds")
     ELSE IF chunk.constants[hi_idx + 1].t # "Int" THEN Fail(vm, "TypeError")
     ELSE IF vm.stack = <<>> THEN Fail(vm, "stack empty")
     ELSE LET lo == chunk.constants[lo_idx + 1].v
              hi == chunk.constants[hi_idx + 1].v
              v == Last(vm.stack)
              matched == /\ v.t = "Int"
                         /\ v.v >= lo
                         /\ IF incl THEN v.v <= hi ELSE v.v < hi
          IN IF ~matched THEN JumpBy(vm, offset) ELSE vm

\* n_upvalues > len underflows `len - n_upvalues`: a panic with overflow
\* checks, a panic in drain(start..) without them
OpMakeClosure(vm, chunk, at) ==
  LET idx == read_u16(chunk.code, at)
      n_upvalues == chunk.code[at + 3]
      len == Len(vm.stack)
  IN IF idx >= Len(chunk.fn_protos) THEN Panic(vm, "index out of bounds")
     ELSE IF n_upvalues > len THEN Panic(vm, "subtract with overflow")
     ELSE Push([vm EXCEPT !.stack = SubSeq(@, 1, len - n_upvalues)],
               ClosureV(chunk.fn_protos[idx + 1],
                        SubSeq(vm.stack, len - n_upvalues + 1, len)))

\* the defaults pushed for the `missing` trailing parameters
Defaults(proto, missing, from) ==
  [j \in 1..(missing - from) |->
     LET i == from + j - 1
         n == Len(proto.defaults)
         def_idx == IF n >= missing - i THEN n - (missing - i) ELSE 0
     IN IF def_idx < n THEN proto.defaults[def_idx + 1] ELSE NoneV]

\* the part Call and CallMethod share once the callee closure is known:
\* slot is the index of the callee (Call) or receiver (CallMethod) slot
EnterClosure(vm, c, argc, slot, via) ==
  IF argc < c.proto.arity \/ argc > c.proto.max_arity
  THEN Fail(vm, "ArityMismatch")
  ELSE LET stack1 == vm.stack \o Defaults(c.proto, c.proto.max_arity - argc, 0)
       IN [vm EXCEPT !.stack = [stack1 EXCEPT ![slot + 1] = NoneV],
                     !.frames = Append(@, CallFrame(c.proto.chunk, slot + 1,
                                                    c.proto.name, c.upvalues,
                                                    via))]

\* push(array, value): appends to the cell the array shares and returns
\* None; any other argument list is Err(String)
neba_push(vm, args) ==
  IF Len(args) = 2 /\ args[1].t = "Array"
  THEN Push([vm EXCEPT !.heap[args[1].v].items = Append(@, args[2])], NoneV)
  ELSE Fail(vm, "Generic")

\* args = stack.drain(fn_idx..).skip(1); push!(f(&args)?)
CallNative(vm, name, fn_idx) ==
  LET args == SubSeq(vm.stack, fn_idx + 2, Len(vm.stack))
      vm1 == [vm EXCEPT !.stack = SubSeq(@, 1, fn_idx)]
  IN IF name = "push" THEN neba_push(vm1, args) ELSE Unmodelled(vm1)

OpCall(vm, chunk, at) ==
  LET argc == chunk.code[at + 1]
      fn_idx == Len(vm.stack) - argc - 1
  IN IF Len(vm.frames) >= FRAMES_MAX THEN Fail(vm, "StackOverflow")
     ELSE IF fn_idx < 0 THEN Panic(vm, "subtract with overflow")
     ELSE LET callee == vm.stack[fn_idx + 1]
          IN IF callee.t = "NativeFn"
             THEN CallNative(vm, callee.v, fn_idx)
             ELSE IF callee.t = "Closure"
             THEN EnterClosure(vm, callee.v, argc, fn_idx, "Call")
             ELSE Fail(vm, "NotCallable")

OpCallMethod(vm, chunk, at) ==
  LET name_idx == read_u16(chunk.code, at)
      argc == chunk.code[at + 3]
      obj_idx == Len(vm.stack) - argc - 1
  IN IF name_idx >= Len(chunk.names) THEN Panic(vm, "index out of bounds")
     ELSE IF obj_idx < 0 THEN Panic(vm, "subtract with overflow")
     ELSE LET name == chunk.names[name_idx + 1]
              obj == vm.stack[obj_idx + 1]
          IN IF obj.t # "Instance" THEN Fail(vm, "UnknownField")
             ELSE IF name \notin DOMAIN vm.heap[obj.v].fields
             THEN Fail(vm, "UnknownField")
             ELSE LET method == vm.heap[obj.v].fields[name]
                      \* self.stack.insert(obj_idx + 1, obj)
                      vm1 == [vm EXCEPT !.stack =
                                SubSeq(@, 1, obj_idx + 1) \o << obj >>
                                \o SubSeq(@, obj_idx + 2, Len(@))]
                  IN IF method.t = "Closure"
                     THEN EnterClosure(vm1, method.v, argc, obj_idx, "CallMethod")
                     ELSE Fail(vm1, "NotCallable")

\* frames.pop(); stack.truncate(frame.base - 1); push!(result).
\* base - 1 underflows in the script frame: a panic with overflow checks,
\* otherwise a wrapped length that makes truncate a no-op
LeaveFrame(vm, result, build) ==
  LET frame == Last(vm.frames)
      vm1 == [vm EXCEPT !.frames = Front(@)]
  IN IF frame.base = 0 /\ build = "debug" THEN Panic(vm1, "subtract with overflow")
     ELSE LET keep == IF frame.base = 0 \/ frame.base - 1 > Len(vm1.stack)
                      THEN Len(vm1.stack) ELSE frame.base - 1
              vm2 == Push([vm1 EXCEPT !.stack = SubSeq(@, 1, keep)], result)
          IN IF vm2.frames = <<>> THEN Finish(vm2, result) ELSE vm2

OpReturn(vm, build) ==
  IF vm.stack = <<>> THEN Fail(vm, "stack underflow")
  ELSE LeaveFrame([vm EXCEPT !.stack = Front(@)], Last(vm.stack), build)

OpReturnNil(vm, build) == LeaveFrame(vm, NoneV, build)

OpHalt(vm) ==
  IF vm.stack = <<>> THEN Finish(vm, NoneV)
  ELSE Finish([vm EXCEPT !.stack = Front(@)], Last(vm.stack))

\* the opcode the active frame is about to execute; "oob" when ip is past
\* the code, "bad" when the byte is no opcode
Fetch(vm) ==
  LET frame == Last(vm.frames)
  IN IF frame.ip >= Len(frame.chunk.code) THEN "oob"
     ELSE from_u8(frame.chunk.code[frame.ip + 1])

\* the operators and truth tests over an Array read the cell behind it:
\* they are left out of the model
OnArray(vm, op) ==
  LET n == Len(vm.stack)
  IN \/ /\ op \in BinaryOps
        /\ n >= 2
        /\ "Array" \in {vm.stack[n].t, vm.stack[n - 1].t}
     \/ /\ op \in {"Not", "JumpFalse", "JumpTrue", "JumpFalsePeek",
                   "JumpTruePeek"}
        /\ n >= 1
        /\ vm.stack[n].t = "Array"

\* one call of step together with what run_chunk does with its result
step(vm, build) ==
  LET frame == Last(vm.frames)
      chunk == frame.chunk
      base == frame.base
      op == Fetch(vm)
      at == frame.ip + 1
      after == at + StepReads(op)
      vm1 == [vm EXCEPT !.frames[Len(vm.frames)].ip = after]
  IN CASE op = "oob" -> Panic(vm, "index out of bounds")
       [] op = "bad" -> Fail(vm, "bad opcode")
       [] after > Len(chunk.code) -> Panic(vm, "index out of bounds")
       [] OnArray(vm, op) -> Unmodelled(vm1)
       [] op = "Const" -> OpConst(vm1, chunk, at)
       [] op = "True" -> Push(vm1, BoolV(TRUE))
       [] op = "False" -> Push(vm1, BoolV(FALSE))
       [] op = "Nil" -> Push(vm1, NoneV)
       [] op = "Pop" -> OpPop(vm1)
       [] op = "Dup" -> OpDup(vm1)
       [] op = "PopN" -> OpPopN(vm1, chunk, at, build)
       [] op = "LoadLocal" -> OpLoadLocal(vm1, chunk, base, at)
       [] op = "StoreLocal" -> OpStoreLocal(vm1, chunk, base, at)
       [] op = "LoadGlobal" -> OpLoadGlobal(vm1, chunk, at)
       [] op = "StoreGlobal" -> OpStoreGlobal(vm1, chunk, at)
       [] op = "DefGlobal" -> OpDefGlobal(vm1, chunk, at)
       [] op \in BinaryOps -> OpBinary(vm1, op, build)
       [] op \in UnaryOps -> OpUnary(vm1, op, build)
       [] op = "Jump" -> OpJump(vm1, chunk, at)
       [] op \in {"JumpFalse", "JumpTrue"} -> OpJumpPop(vm1, chunk, at, op)
       [] op \in {"JumpFalsePeek", "JumpTruePeek", "IsSome", "IsNone", "IsOk",
                  "IsErr"} -> OpJumpPeek(vm1, chunk, at, op)
       [] op = "MatchLit" -> OpMatchLit(vm1, chunk, at)
       [] op = "MatchRange" -> OpMatchRange(vm1, chunk, at)
       [] op = "MakeClosure" -> OpMakeClosure(vm1, chunk, at)
       [] op = "Call" -> OpCall(vm1, chunk, at)
       [] op = "CallMethod" -> OpCallMethod(vm1, chunk, at)
       [] op = "Return" -> OpReturn(vm1, build)
       [] op = "ReturnNil" -> OpReturnNil(vm1, build)
       [] op = "MakeInstance" -> OpMakeInstance(vm1, chunk, at)
       [] op = "GetField" -> OpGetField(vm1, chunk, at)
       [] op = "SetField" -> OpSetField(vm1, chunk, at)
       [] op = "MakeArray" -> OpMakeArray(vm1, chunk, at)
       [] op = "MakeRange" -> OpMakeRange(vm1, chunk, at)
       [] op = "GetIndex" -> OpGetIndex(vm1)
       [] op = "SetIndex" -> OpSetIndex(vm1)
       [] op = "IntoIter" -> OpIntoIter(vm1)
       [] op = "IterNext" -> OpIterNext(vm1, chunk, base, at)
       [] op = "Nop" -> vm1
       [] op = "Halt" -> OpHalt(vm1)
       [] OTHER -> Unmodelled(vm1)  \* upvalues, BuildStr

\* ------------------------------------------------------------------------
\* Programs: the inputs of run (lib.rs), as the ASTs the parser builds
\* ------------------------------------------------------------------------

\* the slots a u8 can name
SlotCount == 256

\* if true
\*     let a = 0      (n times)
\* as a statement: the block's locals stay on the stack of the script frame
Leak(n) ==
  SExpr(EIf(EBool(TRUE), [i \in 1..n |-> SLet("a", EInt(0))], <<>>, <<>>))

\* `let x = 1` and an assignment to x with operator op, at the top of the
\* script (x is a global)
LetGlobal(op) ==
  << SLet("x", EInt(1)), SAssign(EIdent("x"), op, EInt(2)) >>

\* the same two statements in the body of a loop (x is a local)
LetLocal(op) == << SWhile(EBool(TRUE), LetGlobal(op) \o << SBreak >>) >>

\* match 5
\*     case y => y * 3
MatchRvalue ==
  EMatch(EInt(5),
         << Arm(PIdent("y"),
                << SExpr(EBinary("Mul", EIdent("y"), EInt(3))) >>) >>)

\* if cond
\*     let a = 1
\*     a + 1
\* else
\*     3
IfWithLocal(cond) ==
  EIf(EBool(cond),
      << SLet("a", EInt(1)), SExpr(EBinary("Add", EIdent("a"), EInt(1))) >>,
      <<>>, << << SExpr(EInt(3)) >> >>)

\* var out = 0
\* while true
\*     <body>
\*     out = r
\*     break
\* out
InLoop(body) ==
  << SVar("out", EInt(0)),
     SWhile(EBool(TRUE),
            body \o << SAssign(EIdent("out"), "Assign", EIdent("r")),
                       SBreak >>),
     SExpr(EIdent("out")) >>

\* [1, 2]
OneTwo == EArray(<< EInt(1), EInt(2) >>)

\* var i = 0
\* while i < 2
\*     i += 1
\*     <body>
CountedWhile(body) ==
  << SVar("i", EInt(0)),
     SWhile(EBinary("Lt", EIdent("i"), EInt(2)),
            << SAssign(EIdent("i"), "AddAssign", EInt(1)) >> \o body) >>

\* s = s * 10 + e
Shift(e) ==
  SAssign(EIdent("s"), "Assign",
          EBinary("Add", EBinary("Mul", EIdent("s"), EInt(10)), e))

\* var s = 0
\* <loops>
\* s
Summing(loops) == << SVar("s", EInt(0)) >> \o loops \o << SExpr(EIdent("s")) >>

\* var a = [1, 2]
\* a[0] op 5
\* a[0]
IndexStore(op) ==
  << SVar("a", OneTwo),
     SAssign(EIndex(EIdent("a"), EInt(0)), op, EInt(5)),
     SExpr(EIndex(EIdent("a"), EInt(0))) >>

\* push(array, x)
PushX(array) ==
  SExpr(ECall(EIdent("push"), << EIdent(array), EIdent("x") >>))

\* var a = [1, 2]
\* var seen = []
\* var n = 0
\* for x in a
\*     push(seen, x)
\*     <body>
Growing(body) ==
  << SVar("a", OneTwo), SVar("seen", EArray(<<>>)), SVar("n", EInt(0)),
     SFor("x", EIdent("a"), << PushX("seen") >> \o body) >>

\* class G with one field `name = None`, and var g = G()
Holder(name) ==
  << SClass("G", << Field(name, << ENone >>) >>, <<>>),
     SVar("g", ECall(EIdent("G"), <<>>)) >>

Program(name) ==
  CASE name = "arith" ->
         << SExpr(EBinary("Add", EInt(1), EBinary("Mul", EInt(2), EInt(3)))) >>
    [] name = "while" ->
         << SVar("i", EInt(0)),
            SWhile(EBool(TRUE),
                   << SAssign(EIdent("i"), "AddAssign", EInt(1)),
                      SExpr(EIf(EBinary("Ge", EIdent("i"), EInt(3)),
                                << SBreak >>, <<>>, <<>>)) >>),
            SExpr(EBinary("And", EIdent("i"), EBinary("Or", EBool(FALSE), EIdent("i")))) >>
    [] name = "match_ident" ->
         << SExpr(EMatch(EInt(5), << Arm(PIdent("y"), << SExpr(EIdent("y")) >>) >>)) >>
    [] name = "match_some" ->
         << SLet("x", ESome(EInt(42))),
            SExpr(EMatch(EIdent("x"),
                         << Arm(PConstructor("Some", << PIdent("v") >>),
                                << SExpr(EIdent("v")) >>) >>)) >>
    [] name = "match_ok" ->
         << SLet("x", EOk(EInt(42))),
            SExpr(EMatch(EIdent("x"),
                         << Arm(PConstructor("Ok", << PIdent("v") >>),
                                << SExpr(EIdent("v")) >>) >>)) >>
    [] name = "match_err" ->
         << SLet("x", EErr(EInt(42))),
            SExpr(EMatch(EIdent("x"),
                         << Arm(PConstructor("Err", << PIdent("v") >>),
                                << SExpr(EIdent("v")) >>) >>)) >>
    [] name = "match_nested" ->
         << SExpr(EMatch(ESome(EErr(EInt(7))),
                         << Arm(PConstructor("Some", << PConstructor("Ok", << PIdent("x") >>) >>),
                                << SExpr(EInt(1)) >>),
                            Arm(PConstructor("Err", <<>>), << SExpr(EInt(2)) >>),
                            Arm(PWildcard, << SExpr(EInt(3)) >>) >>)) >>
    [] name = "match_ctor" ->
         << SExpr(EMatch(EOk(EInt(1)),
                         << Arm(POr(<< PConstructor("Some", <<>>),
                                       PConstructor("None", <<>>) >>),
                                << SExpr(EInt(1)) >>),
                            Arm(PConstructor("Err", <<>>), << SExpr(EInt(2)) >>),
                            Arm(PConstructor("Ok", <<>>), << SExpr(EInt(3)) >>) >>)) >>
    [] name = "match_lit" ->
         << SExpr(EMatch(EInt(1),
                         << Arm(PLiteral(EInt(2)), << SExpr(EInt(10)) >>),
                            Arm(PWildcard, << SExpr(EInt(20)) >>) >>)) >>
    [] name = "match_range" ->
         << SExpr(EMatch(EInt(1),
                         << Arm(PRange(PLiteral(EInt(5)), PLiteral(EInt(9)), FALSE),
                                << SExpr(EInt(10)) >>),
                            Arm(PWildcard, << SExpr(EInt(20)) >>) >>)) >>
    [] name = "big_if" ->
         << SExpr(EIf(EBool(FALSE), [i \in 1..BigBlock |-> SExpr(EInt(0))],
                      <<>>, <<>>)) >>
    [] name = "fn_call" ->
         << SFn("f", <<>>, << SReturn(<< EInt(1) >>) >>),
            SExpr(ECall(EIdent("f"), <<>>)) >>
    [] name = "method_self" ->
         << SClass("P", <<>>,
                   << SFn("get", << Param("self", <<>>), Param("a", <<>>) >>,
                          << SReturn(<< EIdent("a") >>) >>) >>),
            SExpr(ECall(EField(ECall(EIdent("P"), <<>>), "get"), << EInt(5) >>)) >>
    [] name = "ctor_leak" ->
         << Leak(47),
            SClass("A",
                   << Field("f1", << EInt(0) >>), Field("f2", << EInt(0) >>),
                      Field("f3", << EInt(0) >>), Field("f4", << EInt(0) >>),
                      Field("f5", << EInt(0) >>) >>,
                   << SFn("m", << Param("self", <<>>) >>, << SPass >>) >>),
            SExpr(ECall(EIdent("A"), <<>>)) >>
    [] name = "method_no_self" ->
         << Leak(13),
            SFn("get", << Param("a", <<>>) >>, << SReturn(<< EIdent("a") >>) >>) >>
         \o Holder("get")
         \o << SExpr(EIf(EBool(TRUE),
                         << SLet("f", EInt(0)),
                            SAssign(EField(EIdent("g"), "get"), "Assign", EIdent("f")),
                            SExpr(ECall(EField(EIdent("g"), "get"), << EInt(5) >>)) >>,
                         <<>>, <<>>)) >>
    [] name = "method_ctor" ->
         << SClass("A", << Field("x", << EInt(1) >>) >>, <<>>) >>
         \o Holder("make")
         \o << SAssign(EField(EIdent("g"), "make"), "Assign", EIdent("A")),
               SExpr(ECall(EField(EIdent("g"), "make"), <<>>)) >>
    [] name = "call_recursion" ->
         << SClass("A", << Field("x", << ECall(EIdent("A"), <<>>) >>) >>, <<>>),
            SExpr(ECall(EIdent("A"), <<>>)) >>
    [] name = "closure_snapshot" ->
         << SVar("x", EInt(1)),
            SFn("f", <<>>, << SReturn(<< EIdent("x") >>) >>),
            SAssign(EIdent("x"), "Assign", EInt(2)),
            SExpr(ECall(EIdent("f"), <<>>)) >>
    [] name = "init_once" ->
         << SClass("P", << Field("x", << EInt(0) >>) >>,
                   << SFn("__init__", << Param("self", <<>>), Param("x", <<>>) >>,
                          << SAssign(EField(EIdent("self"), "x"), "Assign",
                                     EIdent("x")) >>) >>),
            SExpr(ECall(EIdent("P"), << EInt(7) >>)) >>
    [] name = "init_self" ->
         << SClass("P", << Field("x", << EInt(0) >>) >>,
                   << SFn("__init__", << Param("self", <<>>) >>,
                          << SAssign(EField(EIdent("self"), "x"), "Assign",
                                     EInt(7)) >>) >>),
            SExpr(ECall(EIdent("P"), <<>>)) >>
    [] name = "ctor_default" ->
         << SClass("P", << Field("x", << EInt(0) >>) >>,
                   << SFn("__init__",
                          << Param("self", <<>>), Param("x", << EInt(5) >>) >>,
                          << SAssign(EField(EIdent("self"), "x"), "Assign",
                                     EIdent("x")) >>) >>),
            SExpr(ECall(EIdent("P"), <<>>)) >>
    [] name = "expr_error" ->   \* an expression the parser gave up on
         << SExpr(EError) >>
    [] name = "pattern_error" ->  \* `match 5` with `case = => 1`
         << SExpr(EMatch(EInt(5), << Arm(PError, << SExpr(EInt(1)) >>) >>)) >>
    [] name = "script_return" ->  \* `return 5` outside every function
         << SReturn(<< EInt(5) >>) >>
    [] name = "assign_let_global" -> LetGlobal("Assign")
    [] name = "compound_let_global" -> LetGlobal("AddAssign")
    [] name = "assign_let_local" -> LetLocal("Assign")
    [] name = "compound_let_local" -> LetLocal("AddAssign")
    [] name = "match_let" ->      \* let r = match ..., r a global
         << SLet("r", MatchRvalue) >>
    [] name = "match_operand" ->  \* let r = 10 + match ...
         << SLet("r", EBinary("Add", EInt(10), MatchRvalue)) >>
    [] name = "match_local" ->    \* let r = match ..., r a local
         InLoop(<< SLet("r", MatchRvalue) >>)
    [] name = "if_taken" ->       \* let r = if true ..., r a global
         << SLet("r", IfWithLocal(TRUE)) >>
    [] name = "if_not_taken" ->   \* let r = if false ...
         << SLet("r", IfWithLocal(FALSE)) >>
    [] name = "if_then_local" ->  \* the if as a statement, then let r = 7
         InLoop(<< SExpr(IfWithLocal(TRUE)), SLet("r", EInt(7)) >>)
    [] name = "while_exhaust" ->  \* the condition turns false
         CountedWhile(<< SLet("a", EIdent("i")) >>)
    [] name = "while_break" ->    \* break after a local of the body
         CountedWhile(<< SLet("a", EIdent("i")), SBreak >>)
    [] name = "while_continue" -> \* continue after a local of the body
         CountedWhile(<< SLet("a", EIdent("i")), SContinue >>)
    [] name = "for_exhaust" ->    \* for x in [1, 2] with a local in the body
         << SFor("x", OneTwo, << SLet("a", EIdent("x")) >>) >>
    [] name = "for_break" ->
         << SFor("x", OneTwo, << SBreak >>) >>
    [] name = "for_continue" ->
         << SFor("x", OneTwo, << SLet("a", EIdent("x")), SContinue >>) >>
    [] name = "for_sum" ->        \* for x in [1, 2, 3]: s = s * 10 + x
         Summing(<< SFor("x", EArray(<< EInt(1), EInt(2), EInt(3) >>),
                         << Shift(EIdent("x")) >>) >>)
    [] name = "for_range" ->      \* for x in 1..4
         Summing(<< SFor("x", ERange(EInt(1), EInt(4), FALSE),
                         << Shift(EIdent("x")) >>) >>)
    [] name = "for_nested" ->     \* for x, for y in [1, 2]: s = s * x + y
         Summing(<< SFor("x", OneTwo,
                         << SFor("y", OneTwo,
                                 << SAssign(EIdent("s"), "Assign",
                                      EBinary("Add",
                                        EBinary("Mul", EIdent("s"), EIdent("x")),
                                        EIdent("y"))) >>) >>) >>)
    [] name = "for_twice" ->      \* two loops one after the other
         Summing(<< SFor("x", OneTwo, << Shift(EIdent("x")) >>),
                    SFor("y", EArray(<< EInt(3) >>),
                         << Shift(EIdent("y")) >>) >>)
    [] name = "for_after_break" -> \* the earlier loop ends by break
         Summing(<< SFor("x", OneTwo, << SBreak >>),
                    SFor("y", EArray(<< EInt(3), EInt(4) >>),
                         << Shift(EIdent("y")) >>) >>)
    [] name = "index_assign" -> IndexStore("Assign")
    [] name = "index_compound" -> IndexStore("AddAssign")
    [] name = "for_push" ->       \* the body pushes onto a twice
         Growing(<< SAssign(EIdent("n"), "AddAssign", EInt(1)),
                    SExpr(EIf(EBinary("Lt", EIdent("n"), EInt(3)),
                              << PushX("a") >>, <<>>, <<>>)) >>)
    [] name = "for_push_all" ->   \* the body pushes onto a each time
         Growing(<< PushX("a") >>)
    [] name = "closure_local" ->  \* the variable is a local of outer
         << SFn("outer", <<>>,
                << SVar("y", EInt(1)),
                   SFn("inner", <<>>, << SReturn(<< EIdent("y") >>) >>),
                   SAssign(EIdent("y"), "Assign", EInt(2)),
                   SReturn(<< ECall(EIdent("inner"), <<>>) >>) >>),
            SExpr(ECall(EIdent("outer"), <<>>)) >>
    [] name = "local_256" ->
         \* var r = 1, then in a block 256 locals a, the local b = 5 in
         \* slot 256, and r = b
         << SVar("r", EInt(1)),
            SExpr(EIf(EBool(TRUE),
                      [i \in 1..SlotCount |-> SLet("a", EInt(0))]
                      \o << SLet("b", EInt(5)),
                            SAssign(EIdent("r"), "Assign", EIdent("b")) >>,
                      <<>>, <<>>)) >>
    [] name = "stack_grow" ->
         \* class A with the field x = A() and an __init__ of 255
         \* parameters with defaults, then A(): every nested call pushes
         \* the 255 missing arguments
         << SClass("A", << Field("x", << ECall(EIdent("A"), <<>>) >>) >>,
                   << SFn("__init__",
                          << Param("self", <<>>) >>
                          \o [i \in 1..255 |-> Param("p", << EInt(0) >>)],
                          << SPass >>) >>),
            SExpr(ECall(EIdent("A"), <<>>)) >>
    [] OTHER ->  \* "method_recursion"
         Holder("make")
         \o << SClass("A", << Field("x", << ECall(EField(EIdent("g"), "make"), <<>>) >>) >>,
                      <<>>),
               SAssign(EField(EIdent("g"), "make"), "Assign", EIdent("A")),
               SExpr(ECall(EIdent("A"), <<>>)) >>

ProgramNames ==
  {"arith", "while", "match_ident", "match_some", "match_ok", "match_err",
   "match_nested", "match_ctor", "match_lit", "match_range", "big_if",
   "fn_call", "method_self", "ctor_leak", "method_no_self", "method_ctor",
   "call_recursion", "method_recursion", "closure_snapshot", "init_once",
   "init_self", "ctor_default", "expr_error", "pattern_error",
   "script_return", "assign_let_global", "compound_let_global",
   "assign_let_local", "compound_let_local", "match_let", "match_operand",
   "match_local", "if_taken", "if_not_taken", "if_then_local",
   "while_exhaust", "while_break", "while_continue", "for_exhaust",
   "for_break", "for_continue", "for_sum", "for_range", "for_nested",
   "for_twice", "for_after_break", "index_assign", "index_compound",
   "for_push", "for_push_all", "closure_local", "stack_grow",
   "local_256"}

\* the two build profiles: with overflow checks (debug) and without (release)
Builds == {"debug", "release"}

\* ------------------------------------------------------------------------
\* The tree-walking interpreter (neba_interpreter): the reference
\* implementation.  `it` is the Interpreter: env (the Vec of Rc frames of
\* Env, as indices into store), store (the frames behind the Rcs, shared by
\* every Env that holds their index), class_registry, depth and the
\* instances.  A result is Ok(v) or Err(e) together with the interpreter
\* the call leaves behind.  The natives stdlib::register defines are not
\* called by the programs of the model and are left out, and so are the
\* expressions and statements marked "unmodelled".
\* ------------------------------------------------------------------------

BreakV == [t |-> "__Break", v |-> 0]
ContinueV == [t |-> "__Continue", v |-> 0]
ReturnV(x) == [t |-> "__Return", v |-> x]
FunctionV(name, params, body, closure) ==
  [t |-> "Function",
   v |-> [name |-> name, params |-> params, body |-> body,
          closure |-> closure]]

IsSentinel(x) == x.t \in {"__Return", "__Break", "__Continue"}

NewInterpreter ==
  [env |-> << 1 >>, store |-> << EmptyMap >>, class_registry |-> EmptyMap,
   depth |-> 0, instances |-> << >>]

IOk(it, v) == [it |-> it, k |-> "ok", v |-> v, e |-> ""]
IErr(it, e) == [it |-> it, k |-> "err", v |-> NoneV, e |-> e]

\* the `?` of the source: an Err is returned at once, with the
\* interpreter as it is at that moment
Try(r, F(_)) == With(r, LAMBDA r1 : IF r1.k = "err" THEN r1 ELSE F(r1))

\* Env::push_scope, pop_scope, define, get, set, snapshot (environment.rs)
env_push_scope(it) ==
  [it EXCEPT !.store = Append(@, EmptyMap),
             !.env = Append(@, Len(it.store) + 1)]

env_pop_scope(it) ==
  IF Len(it.env) > 1 THEN [it EXCEPT !.env = Front(@)] ELSE it

env_define(it, name, v, mutable) ==
  [it EXCEPT !.store[Last(it.env)] =
               MapPut(@, name, [v |-> v, mutable |-> mutable])]

\* the positions of env whose frame holds name
Holding(it, name) ==
  {i \in 1..Len(it.env) : name \in DOMAIN it.store[it.env[i]]}

\* Some(v) is << v >>, None is << >>
env_get(it, name) ==
  IF Holding(it, name) = {} THEN << >>
  ELSE << it.store[it.env[MaxOf(Holding(it, name))]][name].v >>

env_set(it, name, value) ==
  IF Holding(it, name) = {} THEN IErr(it, "AssignError")
  ELSE LET frame == it.env[MaxOf(Holding(it, name))]
       IN IF ~it.store[frame][name].mutable THEN IErr(it, "AssignError")
          ELSE IOk([it EXCEPT !.store[frame][name].v = value], NoneV)

\* Env { frames: self.frames.clone() }: the Rcs are cloned, not the frames
snapshot(it) == it.env

\* Int + Int; the sum of the programs of the model stays within an Int
interp_add(it, l, r) ==
  IF l.t = "Int" /\ r.t = "Int"
  THEN IF l.v + r.v \in MinInt..MaxInt THEN IOk(it, IntV(l.v + r.v))
       ELSE IErr(it, "unmodelled")
  ELSE IF {l.t, r.t} \subseteq {"Int", "Float", "Str"}
  THEN IErr(it, "unmodelled")
  ELSE IErr(it, "TypeError")

eval_binary(it, op, l, r) ==
  CASE op = "Add" -> interp_add(it, l, r)
    [] op = "Lt" /\ l.t = "Int" /\ r.t = "Int" -> IOk(it, BoolV(l.v < r.v))
    [] OTHER -> IErr(it, "unmodelled")

compute(it, op, lhs, rhs) ==
  CASE op = "Assign" -> IOk(it, rhs)
    [] op = "AddAssign" -> interp_add(it, lhs, rhs)
    [] OTHER -> IErr(it, "unmodelled")

apply_op(it, op, name, rhs) ==
  IF op = "Assign" THEN IOk(it, rhs)
  ELSE IF env_get(it, name) = << >> THEN IErr(it, "UndefinedVariable")
  ELSE compute(it, op, env_get(it, name)[1], rhs)

\* the params of a function that are not self
NonSelf(params) == SelectSeq(params, LAMBDA p : p.name # "self")

\* the methods of a class named name
MethodsNamed(meta, name) ==
  SelectSeq(meta.methods, LAMBDA m : m.k = "Fn" /\ m.name = name)

\* a method is handed out as a Function whose closure is the current Env
\* with one more scope that holds self
get_field(it, obj, field) ==
  IF obj.t # "Instance" THEN IErr(it, "UnknownField")
  ELSE LET inst == it.instances[obj.v]
       IN IF field \in DOMAIN inst.fields THEN IOk(it, inst.fields[field])
          ELSE IF inst.class_name \notin DOMAIN it.class_registry
          THEN IErr(it, "UnknownField")
          ELSE LET found == MethodsNamed(it.class_registry[inst.class_name],
                                         field)
               IN IF found = << >> THEN IErr(it, "UnknownField")
                  ELSE With(env_define(env_push_scope(it), "self", obj, FALSE),
                         LAMBDA closure :
                           IOk([closure EXCEPT !.env = it.env],
                               FunctionV(field, found[1].params,
                                         found[1].body, closure.env)))

RECURSIVE exec_stmt(_, _)
RECURSIVE exec_from(_, _, _, _)
RECURSIVE exec_while(_, _, _)
RECURSIVE do_assign(_, _, _, _)
RECURSIVE eval_expr(_, _)
RECURSIVE eval_args(_, _, _, _)
RECURSIVE call(_, _, _)
RECURSIVE construct(_, _, _, _)
RECURSIVE init_fields(_, _, _, _)
RECURSIVE call_fn(_, _, _)
RECURSIVE bind_params(_, _, _, _)
RECURSIVE run_from(_, _, _, _)

\* exec_block_raw from statement i on; last is the value of the latest
\* statement
exec_from(it, stmts, i, last_v) ==
  IF i > Len(stmts) THEN IOk(it, last_v)
  ELSE Try(exec_stmt(it, stmts[i]), LAMBDA r :
         IF IsSentinel(r.v) THEN r ELSE exec_from(r.it, stmts, i + 1, r.v))

exec_block_raw(it, stmts) == exec_from(it, stmts, 1, NoneV)

\* the scope is popped whatever exec_block_raw returns
exec_block(it, stmts) ==
  With(exec_block_raw(env_push_scope(it), stmts), LAMBDA r :
    [r EXCEPT !.it = env_pop_scope(@)])

\* the loop of StmtKind::While
exec_while(it, condition, body) ==
  Try(eval_expr(it, condition), LAMBDA c :
    IF ~is_truthy(c.v) THEN IOk(c.it, NoneV)
    ELSE Try(exec_block(c.it, body), LAMBDA b :
           CASE b.v.t = "__Break" -> IOk(b.it, NoneV)
             [] b.v.t = "__Return" -> b
             [] OTHER -> exec_while(b.it, condition, body)))

exec_stmt(it, s) ==
  CASE s.k \in {"Let", "Var"} ->
         Try(eval_expr(it, s.value), LAMBDA r :
           IOk(env_define(r.it, s.name, r.v, s.k = "Var"), NoneV))
    [] s.k = "Assign" ->
         Try(eval_expr(it, s.value), LAMBDA r :
           do_assign(r.it, s.target, s.op, r.v))
    [] s.k = "Fn" ->
         IOk(env_define(it, s.name,
                        FunctionV(s.name, s.params, s.body, snapshot(it)),
                        FALSE),
             NoneV)
    [] s.k = "Class" ->
         IOk(env_define(
               [it EXCEPT !.class_registry =
                            MapPut(@, s.name, [fields |-> s.fields,
                                               methods |-> s.methods])],
               s.name, FunctionV(s.name, << >>, << >>, snapshot(it)), FALSE),
             NoneV)
    [] s.k = "Return" ->
         IF s.value = << >> THEN IOk(it, ReturnV(NoneV))
         ELSE Try(eval_expr(it, s.value[1]), LAMBDA r :
                IOk(r.it, ReturnV(r.v)))
    [] s.k = "While" -> exec_while(it, s.condition, s.body)
    [] s.k = "Break" -> IOk(it, BreakV)
    [] s.k = "Continue" -> IOk(it, ContinueV)
    [] s.k = "Pass" -> IOk(it, NoneV)
    [] s.k = "Expr" -> eval_expr(it, s.e)
    [] OTHER -> IErr(it, "unmodelled")  \* For

do_assign(it, target, op, rhs) ==
  IF target.k = "Ident"
  THEN Try(apply_op(it, op, target.name, rhs), LAMBDA val :
         env_set(val.it, target.name, val.v))
  ELSE IErr(it, "unmodelled")  \* Index, Field

\* the arguments es[i..] in order, collected after vs
eval_args(it, es, i, vs) ==
  IF i > Len(es) THEN [IOk(it, NoneV) EXCEPT !.v = vs]
  ELSE Try(eval_expr(it, es[i]), LAMBDA r :
         eval_args(r.it, es, i + 1, Append(vs, r.v)))

eval_expr(it, e) ==
  CASE e.k = "Int" -> IOk(it, IntV(e.n))
    [] e.k = "Bool" -> IOk(it, BoolV(e.b))
    [] e.k = "None" -> IOk(it, NoneV)
    [] e.k = "Ident" ->
         IF env_get(it, e.name) = << >> THEN IErr(it, "UndefinedVariable")
         ELSE IOk(it, env_get(it, e.name)[1])
    [] e.k = "Binary" /\ e.op \notin {"And", "Or"} ->
         Try(eval_expr(it, e.left), LAMBDA l :
           Try(eval_expr(l.it, e.right), LAMBDA r :
             eval_binary(r.it, e.op, l.v, r.v)))
    [] e.k = "If" /\ e.elif_branches = << >> ->
         Try(eval_expr(it, e.condition), LAMBDA c :
           IF is_truthy(c.v) THEN exec_block(c.it, e.then_block)
           ELSE IF e.else_block = << >> THEN IOk(c.it, NoneV)
           ELSE exec_block(c.it, e.else_block[1]))
    [] e.k = "Call" /\ e.kwargs = << >> ->
         Try(eval_expr(it, e.callee), LAMBDA fv :
           Try(eval_args(fv.it, e.args, 1, << >>), LAMBDA av :
             call(av.it, fv.v, av.v)))
    [] e.k = "Field" ->
         Try(eval_expr(it, e.object), LAMBDA obj :
           get_field(obj.it, obj.v, e.field))
    [] e.k = "Error" -> IErr(it, "Generic")
    [] OTHER -> IErr(it, "unmodelled")

\* Interpreter::call: depth is raised for a Function and lowered on the
\* paths that reach `self.depth -= 1`
call(it, func, args) ==
  IF it.depth >= MAX_DEPTH THEN IErr(it, "StackOverflow")
  ELSE IF func.t = "Function"
  THEN With([it EXCEPT !.depth = @ + 1], LAMBDA it1 :
         IF func.v.name \in DOMAIN it1.class_registry
         THEN construct(it1, func.v.name, it1.class_registry[func.v.name],
                        args)
         ELSE With(call_fn(it1, func.v, args), LAMBDA r :
                [r EXCEPT !.it.depth = @ - 1]))
  ELSE IF func.t = "NativeFunction" THEN IErr(it, "unmodelled")
  ELSE IErr(it, "NotCallable")

\* the defaults of the fields from field i on, stored into instance id
init_fields(it, fields, i, id) ==
  IF i > Len(fields) THEN IOk(it, NoneV)
  ELSE Try(IF fields[i].default = << >> THEN IOk(it, NoneV)
           ELSE eval_expr(it, fields[i].default[1]),
           LAMBDA r :
             init_fields([r.it EXCEPT !.instances[id].fields =
                                        MapPut(@, fields[i].name, r.v)],
                         fields, i + 1, id))

\* the constructor branch of call: the `?` after the defaults, get_field
\* and the call of __init__ return without lowering depth
construct(it, name, meta, args) ==
  With(Len(it.instances) + 1, LAMBDA id :
    Try(init_fields([it EXCEPT !.instances = Append(@, Instance(name))],
                    meta.fields, 1, id),
        LAMBDA r :
          IF MethodsNamed(meta, "__init__") = << >>
          THEN IOk([r.it EXCEPT !.depth = @ - 1], InstanceV(id))
          ELSE Try(get_field(r.it, InstanceV(id), "__init__"), LAMBDA init :
                 Try(call(init.it, init.v, args), LAMBDA done :
                   IOk([done.it EXCEPT !.depth = @ - 1], InstanceV(id))))))

\* the params from i on: the next argument, or the default evaluated in
\* the environment of the function; the `?` returns with that environment
bind_params(it, params, i, args) ==
  IF i > Len(params) THEN IOk(it, NoneV)
  ELSE IF params[i].name = "self" THEN bind_params(it, params, i + 1, args)
  ELSE Try(IF args # << >> THEN IOk(it, args[1])
           ELSE eval_expr(it, params[i].default[1]),
           LAMBDA r :
             bind_params(env_define(r.it, params[i].name, r.v, TRUE), params,
                         i + 1, IF args = << >> THEN args ELSE Tail(args)))

call_fn(it, def, args) ==
  LET non_self == NonSelf(def.params)
      required == Len(SelectSeq(non_self, LAMBDA p : p.default = << >>))
  IN IF Len(args) < required \/ Len(args) > Len(non_self)
     THEN IErr(it, "ArityMismatch")
     ELSE Try(bind_params(env_push_scope([it EXCEPT !.env = def.closure]),
                          def.params, 1, args),
              LAMBDA bound :
                With(exec_block_raw(bound.it, def.body), LAMBDA r :
                  With([r EXCEPT !.it = [env_pop_scope(@)
                                           EXCEPT !.env = it.env]],
                       LAMBDA r1 :
                         IF r1.k = "ok" /\ r1.v.t = "__Return"
                         THEN [r1 EXCEPT !.v = @.v]
                         ELSE r1)))

\* the helper `run` of the tests (lib.rs): the statements one after the
\* other on a new interpreter; the value of the last one, or the first error
run_from(it, stmts, i, last_v) ==
  IF i > Len(stmts) THEN IOk(it, last_v)
  ELSE Try(exec_stmt(it, stmts[i]), LAMBDA r :
         run_from(r.it, stmts, i + 1, r.v))

interp_run(stmts) == run_from(NewInterpreter, stmts, 1, NoneV)

\* ------------------------------------------------------------------------
\* The lexer (neba_lexer/src/lexer.rs): source text -> tokens.  A source is
\* a sequence of characters; the characters of the model are space, tab,
\* \r, \n, '#', '$', '=', '>' after '=', the quote ', the backslash and
\* the letters below: the arms of next_token for other characters are
\* left out.
\* ------------------------------------------------------------------------

\* Option<char>::None of peek and advance
NoChar == ""

\* char::is_alphabetic, for the letters of the model
Letters == {"a", "c", "e", "h", "i", "l", "m", "n", "p", "s", "t", "w"}

\* the escapes lex_string accepts, among the characters of the model
Escapes == {"n", "t", "\\", "'"}

\* lookup_keyword, for the keywords the letters of the model can spell
\* that the parser of the model handles
lookup_keyword(name) ==
  IF name = <<"l", "e", "t">> THEN "Let"
  ELSE IF name = <<"m", "a", "t", "c", "h">> THEN "Match"
  ELSE IF name = <<"c", "a", "s", "e">> THEN "Case"
  ELSE IF name = <<"p", "a", "s", "s">> THEN "Pass"
  ELSE IF name = <<"w", "h", "i", "l", "e">> THEN "While"
  ELSE "Identifier"

Tok(kind, text) == [kind |-> kind, text |-> text]

NoToken == Tok("", <<>>)

\* Lexer::new
NewLexer(source) ==
  [source |-> source, pos |-> 0, column |-> 1, indent_stack |-> <<0>>,
   pending |-> <<>>, errors |-> <<>>]

peek(lx) ==
  IF lx.pos < Len(lx.source) THEN lx.source[lx.pos + 1] ELSE NoChar

peek_next(lx) ==
  IF lx.pos + 1 < Len(lx.source) THEN lx.source[lx.pos + 2] ELSE NoChar

\* advance: the lexer after the call (the caller reads the character with
\* peek before it)
advance(lx) ==
  IF lx.pos >= Len(lx.source) THEN lx
  ELSE [lx EXCEPT !.pos = @ + 1,
                  !.column = IF peek(lx) = "\n" THEN 1 ELSE @ + 1]

\* LexResult<Option<Token>> together with the lexer it leaves behind
LexSome(lx, tok) == [lx |-> lx, k |-> "tok", tok |-> tok, e |-> ""]
LexNone(lx) == [lx |-> lx, k |-> "none", tok |-> NoToken, e |-> ""]
LexErr(lx, e) == [lx |-> lx, k |-> "err", tok |-> NoToken, e |-> e]

\* the loop at the head of process_indentation: the leading spaces
RECURSIVE SkipSpaces(_)
SkipSpaces(lx) ==
  IF peek(lx) = " " THEN SkipSpaces(advance(lx)) ELSE lx

\* a single pop in place of the loop of process_indentation
PopOne(stack, indent) ==
  IF stack # <<>> /\ Last(stack) > indent THEN Front(stack) ELSE stack

\* the pops of process_indentation: every entry above indent
RECURSIVE PopAbove(_, _)
PopAbove(stack, indent) ==
  IF stack # <<>> /\ Last(stack) > indent
  THEN PopAbove(Front(stack), indent)
  ELSE stack

Dedents(n) == [i \in 1..n |-> Tok("Dedent", <<>>)]

\* the tail of process_indentation, after the leading spaces: lx is the
\* lexer past them, indent their number
Indentation(lx, indent) ==
  IF peek(lx) = "\t" THEN LexErr(lx, "TabSpaceMixing")
  ELSE IF peek(lx) \in {"\n", "#", NoChar} THEN LexNone(lx)
  ELSE IF indent > Last(lx.indent_stack)
  THEN LexSome([lx EXCEPT !.indent_stack = Append(@, indent)],
               Tok("Indent", <<>>))
  ELSE IF indent < Last(lx.indent_stack)
  THEN With(PopAbove(lx.indent_stack, indent), LAMBDA popped :
         IF (IF popped = <<>> THEN 0 ELSE Last(popped)) # indent
         THEN LexErr([lx EXCEPT !.indent_stack = popped],
                     "InconsistentIndentation")
         ELSE LexSome(
                [lx EXCEPT !.indent_stack = popped,
                           !.pending = @ \o Dedents(Len(lx.indent_stack)
                                                    - Len(popped) - 1)],
                Tok("Dedent", <<>>)))
  ELSE LexNone(lx)

process_indentation(lx) ==
  With(SkipSpaces(lx), LAMBDA past : Indentation(past, past.pos - lx.pos))

\* close_all_blocks without its loop
LeaveBlocksOpen(lx) == [lx |-> lx, tokens |-> <<>>]

\* close_all_blocks: one Dedent for every entry above the first
close_all_blocks(lx) ==
  [lx |-> [lx EXCEPT !.indent_stack = SubSeq(@, 1, 1)],
   tokens |-> Dedents(Len(lx.indent_stack) - 1)]

\* the loop of lex_string for a string that is not triple-quoted; start is
\* the offset of the opening quote
RECURSIVE StringBody(_, _, _)
StringBody(lx, quote, start) ==
  IF peek(lx) = NoChar \/ peek(lx) = "\n"
  THEN LexErr(lx, "UnterminatedString")
  ELSE IF peek(lx) = "\\"
  THEN With(advance(lx), LAMBDA esc :
         IF peek(esc) = NoChar THEN LexErr(esc, "UnterminatedString")
         ELSE IF peek(esc) \in Escapes
         THEN StringBody(advance(esc), quote, start)
         ELSE LexErr(advance(esc), "InvalidEscapeSequence"))
  ELSE IF peek(lx) = quote
  THEN LexSome(advance(lx),
               Tok("StringLiteral", SubSeq(lx.source, start + 1, lx.pos + 1)))
  ELSE StringBody(advance(lx), quote, start)

\* the loop of lex_string for a triple-quoted string
RECURSIVE TripleBody(_, _, _)
TripleBody(lx, quote, start) ==
  IF peek(lx) = NoChar THEN LexErr(lx, "UnterminatedString")
  ELSE IF peek(lx) = "\\"
  THEN With(advance(lx), LAMBDA esc :
         IF peek(esc) = NoChar THEN LexErr(esc, "UnterminatedString")
         ELSE IF peek(esc) \in Escapes
         THEN TripleBody(advance(esc), quote, start)
         ELSE LexErr(advance(esc), "InvalidEscapeSequence"))
  ELSE IF peek(lx) = quote /\ peek_next(lx) = quote
          /\ peek_next(advance(lx)) = quote
  THEN LexSome(advance(advance(advance(lx))),
               Tok("StringLiteral", SubSeq(lx.source, start + 1, lx.pos + 3)))
  ELSE TripleBody(advance(lx), quote, start)

\* lex_string: lx is the lexer past the opening quote
lex_string(lx, quote, start) ==
  IF peek(lx) = quote /\ peek_next(lx) = quote
  THEN TripleBody(advance(advance(lx)), quote, start)
  ELSE StringBody(lx, quote, start)

\* the token of the name that lex_identifier has read
Word(name) == Tok(lookup_keyword(name), name)

\* lex_identifier: lx is the lexer past the first character
RECURSIVE lex_identifier(_, _)
lex_identifier(lx, start) ==
  IF peek(lx) \in Letters THEN lex_identifier(advance(lx), start)
  ELSE LexSome(lx, Word(SubSeq(lx.source, start + 1, lx.pos)))

\* the '=' arm of next_token: lx is the lexer past the '='
lex_equal(lx) ==
  IF peek(lx) = "=" THEN LexSome(advance(lx), Tok("EqualEqual", <<"=", "=">>))
  ELSE IF peek(lx) = ">"
  THEN LexSome(advance(lx), Tok("FatArrow", <<"=", ">">>))
  ELSE LexSome(lx, Tok("Equal", <<"=">>))

\* the comment branch of next_token: up to the end of the line
RECURSIVE SkipComment(_)
SkipComment(lx) ==
  IF peek(lx) # "\n" /\ peek(lx) # NoChar THEN SkipComment(advance(lx))
  ELSE lx

\* next_token after the indentation of the line has been processed
Scan(lx) ==
  IF peek(lx) = NoChar THEN LexNone(lx)
  ELSE IF peek(lx) \in {" ", "\t", "\r"} THEN LexNone(advance(lx))
  ELSE IF peek(lx) = "#" THEN LexNone(SkipComment(lx))
  ELSE IF peek(lx) = "\n" THEN LexSome(advance(lx), Tok("Newline", <<"\n">>))
  ELSE IF peek(lx) = "=" THEN lex_equal(advance(lx))
  ELSE IF peek(lx) = "'" THEN lex_string(advance(lx), "'", lx.pos)
  ELSE IF peek(lx) \in Letters THEN lex_identifier(advance(lx), lx.pos)
  ELSE LexErr(advance(lx), "UnexpectedCharacter")

\* next_token: at column 1 the indentation of the line comes first, and
\* its token or its error is the result
next_token(lx) ==
  IF lx.column = 1
  THEN With(process_indentation(lx), LAMBDA ind :
         IF ind.k = "none" THEN Scan(ind.lx) ELSE ind)
  ELSE Scan(lx)

\* '\0', the character of unwrap_or in tokenize
Nul == "NUL"

\* Vec<Token> of tokenize together with the lexer, and the history of the
\* latest iteration of its loop: the outcome k of next_token ("eof" on the
\* branch that ends the loop), its error e, the lexer and the number of
\* tokens before the call, and the offset at which next_token stopped
Tokenizing(lx, tokens, done, last) ==
  [lx |-> lx, tokens |-> tokens, done |-> done, last |-> last]

NoIteration ==
  [k |-> "", e |-> "", lx |-> NewLexer(<<>>), n |-> 0, stop |-> 0]

\* tokens.extend(self.pending.drain(..))
Drain(t) ==
  [t EXCEPT !.tokens = @ \o t.lx.pending, !.lx.pending = <<>>]

\* the branch of tokenize at the end of the source
Finishing(t, closed) ==
  Tokenizing(closed.lx, t.tokens \o closed.tokens \o <<Tok("Eof", <<>>)>>,
             TRUE,
             [k |-> "eof", e |-> "", lx |-> t.lx, n |-> Len(t.tokens),
              stop |-> t.lx.pos])

\* the match of tokenize on the result r of next_token
Matching(t, r) ==
  Tokenizing(
    IF r.k = "err"
    THEN [advance(r.lx) EXCEPT !.errors = Append(@, r.e)]
    ELSE r.lx,
    IF r.k = "tok" THEN Append(t.tokens, r.tok)
    ELSE IF r.k = "err"
    THEN Append(t.tokens,
                Tok("Unknown",
                    <<IF peek(r.lx) = NoChar THEN Nul ELSE peek(r.lx)>>))
    ELSE t.tokens,
    FALSE,
    [k |-> r.k, e |-> r.e, lx |-> t.lx, n |-> Len(t.tokens),
     stop |-> r.lx.pos])

\* one iteration of the loop of tokenize
Iterate(t) ==
  IF t.lx.pos >= Len(t.lx.source)
  THEN Finishing(t, close_all_blocks(t.lx))
  ELSE Matching(t, next_token(t.lx))

tokenize_step(t) == Iterate(Drain(t))

\* tokenize, run to its end
RECURSIVE Run(_)
Run(t) == IF t.done THEN t ELSE Run(tokenize_step(t))

tokenize(source) ==
  Run(Tokenizing(NewLexer(source), <<>>, FALSE, NoIteration))

\* ------------------------------------------------------------------------
\* The parser (neba_parser/src/parser.rs): tokens -> statements and
\* errors.  The tokens are the ones the lexer of the model produces; the
\* arms of the parser for other tokens are left out.  Names are the
\* lexemes of their tokens.
\* ------------------------------------------------------------------------

\* Parser::new
NewParser(tokens) == [tokens |-> tokens, pos |-> 0, errors |-> <<>>]

\* Parser::peek
peek_tok(p) ==
  p.tokens[(IF p.pos < Len(p.tokens) - 1 THEN p.pos ELSE Len(p.tokens) - 1)
           + 1]

peek_kind(p) == peek_tok(p).kind

\* Parser::advance
advance_tok(p) ==
  IF p.pos < Len(p.tokens) - 1 THEN [p EXCEPT !.pos = @ + 1] ELSE p

\* match_tok: the parser after the call
match_tok(p, kind) == IF peek_kind(p) = kind THEN advance_tok(p) ELSE p

RECURSIVE skip_newlines(_)
skip_newlines(p) ==
  IF peek_kind(p) = "Newline" THEN skip_newlines(advance_tok(p)) ELSE p

expect_newline(p) ==
  IF peek_kind(p) \in {"Newline", "Eof"} THEN advance_tok(p) ELSE p

\* self.errors.push(e)
Recorded(p, e) == [p EXCEPT !.errors = Append(@, e)]

\* the loop of error_expr and error_stmt: up to a Newline, Eof or Dedent
RECURSIVE Recover(_)
Recover(p) ==
  IF peek_kind(p) \in {"Newline", "Eof", "Dedent"} THEN p
  ELSE Recover(advance_tok(p))

\* a parse function's result and the parser it leaves behind
Parsed(p, node) == [p |-> p, node |-> node]

error_expr(p, e) == Parsed(Recover(Recorded(p, e)), EError)

error_stmt(p, e) ==
  Parsed(expect_newline(Recover(Recorded(p, e))), SExpr(EError))

\* infix_prec: Option<(Prec, bool)> as a sequence of at most one pair
\* (LParen, LBracket and Dot are no tokens of the model)
Infix(prec, right_assoc) == << [prec |-> prec, right_assoc |-> right_assoc] >>

infix_prec(kind) ==
  CASE kind = "Or" -> Infix(PrecOr, FALSE)
    [] kind = "And" -> Infix(PrecAnd, FALSE)
    [] kind \in {"EqualEqual", "Less"} -> Infix(PrecCompare, FALSE)
    [] kind \in {"DotDot", "DotDotEqual"} -> Infix(PrecRange, FALSE)
    [] kind = "Pipe" -> Infix(PrecBitOr, FALSE)
    [] kind = "Caret" -> Infix(PrecBitXor, FALSE)
    [] kind = "Ampersand" -> Infix(PrecBitAnd, FALSE)
    [] kind = "LessLess" -> Infix(PrecShift, FALSE)
    [] kind \in {"Plus", "Minus"} -> Infix(PrecAdd, FALSE)
    [] kind = "Star" -> Infix(PrecMul, FALSE)
    [] kind = "StarStar" -> Infix(PrecPower, TRUE)
    [] OTHER -> <<>>

token_to_binop(kind) ==
  CASE kind = "Or" -> "Or"
    [] kind = "And" -> "And"
    [] kind = "EqualEqual" -> "Eq"
    [] kind = "Less" -> "Lt"
    [] kind = "Pipe" -> "BitOr"
    [] kind = "Caret" -> "BitXor"
    [] kind = "Ampersand" -> "BitAnd"
    [] kind = "LessLess" -> "Shl"
    [] kind = "Minus" -> "Sub"
    [] kind = "Star" -> "Mul"
    [] kind = "StarStar" -> "Pow"
    [] OTHER -> "Add"

RECURSIVE parse_stmt(_)
RECURSIVE parse_expr(_, _)
RECURSIVE ExprLoop(_, _, _)
RECURSIVE parse_infix(_, _, _, _)
RECURSIVE parse_prefix(_)
RECURSIVE parse_match_expr(_)
RECURSIVE MatchBody(_, _)
RECURSIVE MatchArms(_, _)
RECURSIVE ArmBody(_, _)
RECURSIVE parse_block(_)
RECURSIVE BlockStmts(_, _)
RECURSIVE parse_let(_, _)
RECURSIVE LetValue(_, _, _)
RECURSIVE parse_while(_)
RECURSIVE parse_expr_or_assign(_)
RECURSIVE Assignment(_, _)

\* parse_single_pattern
parse_single_pattern(p) ==
  IF peek_kind(p) = "Identifier"
  THEN Parsed(advance_tok(p), PIdent(peek_tok(p).text))
  ELSE IF peek_kind(p) = "StringLiteral"
  THEN Parsed(advance_tok(p), PLiteral(EStr(peek_tok(p).text)))
  ELSE Parsed(Recorded(p, "InvalidPattern"), PError)

\* parse_pattern: no token of the model is a Pipe
parse_pattern(p) == parse_single_pattern(p)

\* the loop of parse_expr (Not is no token of the model)
ExprLoop(p, left, min_prec) ==
  IF infix_prec(peek_kind(p)) = <<>> THEN Parsed(p, left)
  ELSE With(infix_prec(peek_kind(p))[1], LAMBDA i :
    IF i.prec <= min_prec /\ ~i.right_assoc THEN Parsed(p, left)
    ELSE IF i.prec < min_prec THEN Parsed(p, left)
    ELSE With(parse_infix(p, left, i.prec, i.right_assoc), LAMBDA r :
           ExprLoop(r.p, r.node, min_prec)))

parse_expr(p, min_prec) ==
  With(parse_prefix(p), LAMBDA r : ExprLoop(r.p, r.node, min_prec))

\* parse_infix: the arms of DotDot, DotDotEqual and the binary operators;
\* Prec::try_from(prec - 1) is Some for every precedence of a right
\* associative operator
parse_infix(p, left, prec, right_assoc) ==
  IF peek_kind(p) \in {"DotDot", "DotDotEqual"}
  THEN With(parse_expr(advance_tok(p), PrecAdd), LAMBDA r :
         Parsed(r.p, ERange(left, r.node, peek_kind(p) = "DotDotEqual")))
  ELSE With(parse_expr(advance_tok(p),
                       IF right_assoc THEN prec - 1 ELSE prec), LAMBDA r :
         Parsed(r.p, EBinary(token_to_binop(peek_kind(p)), left, r.node)))

parse_prefix(p) ==
  IF peek_kind(p) = "Identifier"
  THEN Parsed(advance_tok(p), EIdent(peek_tok(p).text))
  ELSE IF peek_kind(p) = "StringLiteral"
  THEN Parsed(advance_tok(p), EStr(peek_tok(p).text))
  ELSE IF peek_kind(p) = "Match" THEN parse_match_expr(p)
  ELSE error_expr(p, "UnexpectedToken")

\* the body of an arm of parse_match_expr, after its pattern
ArmBody(p, pattern) ==
  IF peek_kind(p) = "FatArrow"
  THEN With(parse_stmt(advance_tok(p)), LAMBDA r :
         Parsed(r.p, Arm(pattern, <<r.node>>)))
  ELSE With(parse_block(expect_newline(p)), LAMBDA r :
         Parsed(r.p, Arm(pattern, r.node)))

\* the loop of parse_match_expr over the arms
MatchArms(p, arms) ==
  IF peek_kind(p) \in {"Dedent", "Eof"} THEN Parsed(p, arms)
  ELSE IF peek_kind(p) = "Newline" THEN MatchArms(advance_tok(p), arms)
  ELSE IF peek_kind(p) # "Case" THEN Parsed(p, arms)
  ELSE With(parse_pattern(advance_tok(p)), LAMBDA pat :
         With(ArmBody(pat.p, pat.node), LAMBDA r :
           MatchArms(r.p, Append(arms, r.node))))

\* parse_match_expr after the subject and its line end
MatchBody(p, subject) ==
  IF peek_kind(p) # "Indent"
  THEN Parsed(Recorded(p, "MissingIndent"), EMatch(subject, <<>>))
  ELSE With(MatchArms(skip_newlines(advance_tok(p)), <<>>), LAMBDA a :
         Parsed(match_tok(a.p, "Dedent"), EMatch(subject, a.node)))

parse_match_expr(p) ==
  With(parse_expr(advance_tok(p), PrecNone), LAMBDA s :
    MatchBody(expect_newline(s.p), s.node))

\* the loop of parse_block over the statements
BlockStmts(p, stmts) ==
  IF peek_kind(p) \in {"Dedent", "Eof"} THEN Parsed(p, stmts)
  ELSE IF peek_kind(p) = "Newline" THEN BlockStmts(advance_tok(p), stmts)
  ELSE With(parse_stmt(p), LAMBDA r :
         BlockStmts(r.p, Append(stmts, r.node)))

parse_block(p) ==
  IF peek_kind(p) # "Indent"
  THEN Parsed(Recorded(p, "MissingIndent"), <<>>)
  ELSE With(BlockStmts(skip_newlines(advance_tok(p)), <<>>), LAMBDA b :
         Parsed(match_tok(b.p, "Dedent"), b.node))

\* parse_let after the name: no token of the model is a Colon
LetValue(p, name, is_var) ==
  IF peek_kind(p) # "Equal" THEN error_stmt(p, "UnexpectedToken")
  ELSE With(parse_expr(advance_tok(p), PrecNone), LAMBDA v :
         Parsed(expect_newline(v.p),
                IF is_var THEN SVar(name, v.node) ELSE SLet(name, v.node)))

parse_let(p, is_var) ==
  IF peek_kind(advance_tok(p)) # "Identifier"
  THEN error_stmt(advance_tok(p), "UnexpectedToken")
  ELSE LetValue(advance_tok(advance_tok(p)), peek_tok(advance_tok(p)).text,
                is_var)

parse_while(p) ==
  With(parse_expr(advance_tok(p), PrecNone), LAMBDA c :
    With(parse_block(expect_newline(c.p)), LAMBDA b :
      Parsed(b.p, SWhile(c.node, b.node))))

\* parse_expr_or_assign after the '=' was seen: p is the parser at the '='
Assignment(p, target) ==
  With(parse_expr(advance_tok(p), PrecNone), LAMBDA v :
    Parsed(expect_newline(v.p), SAssign(target, "Assign", v.node)))

parse_expr_or_assign(p) ==
  With(parse_expr(p, PrecNone), LAMBDA r :
    IF peek_kind(r.p) = "Equal"
    THEN Assignment(IF r.node.k \in {"Ident", "Field", "Index"} THEN r.p
                    ELSE Recorded(r.p, "InvalidAssignTarget"),
                    r.node)
    ELSE Parsed(expect_newline(r.p), SExpr(r.node)))

parse_stmt(p) ==
  IF peek_kind(p) = "Let" THEN parse_let(p, FALSE)
  ELSE IF peek_kind(p) = "While" THEN parse_while(p)
  ELSE IF peek_kind(p) = "Pass"
  THEN Parsed(expect_newline(advance_tok(p)), SPass)
  ELSE parse_expr_or_assign(p)

\* Program.stmts of parse together with the parser, and the history of
\* the latest step: "begin" for the skip_newlines before the loop, "stmt"
\* for an iteration of the loop, "end" for its exit; pos and errors are
\* the offset and the number of errors before the step
Parsing(p, stmts, done, latest) ==
  [p |-> p, stmts |-> stmts, done |-> done, last |-> latest]

NoStep == [k |-> "", pos |-> 0, errors |-> 0]

StepOf(k, p) == [k |-> k, pos |-> p.pos, errors |-> Len(p.errors)]

\* parse, up to its loop
parse_begin(s) ==
  Parsing(skip_newlines(s.p), s.stmts, FALSE, StepOf("begin", s.p))

\* the body of the loop of parse
parse_iteration(s) ==
  With(parse_stmt(s.p), LAMBDA r :
    Parsing(skip_newlines(r.p), Append(s.stmts, r.node), FALSE,
            StepOf("stmt", s.p)))

\* the exit of the loop of parse
parse_end(s) == Parsing(s.p, s.stmts, TRUE, StepOf("end", s.p))

\* ------------------------------------------------------------------------
\* The state machine: run (lib.rs) compiles the program and run_chunk
\* drives step until it returns a result or an error
\* ------------------------------------------------------------------------

VARIABLES
  prog,     \* name of the program being run
  build,    \* build profile of the binary
  stack,    \* Vm.stack
  frames,   \* Vm.frames
  globals,  \* Vm.globals: name -> [v, mutable]
  heap,     \* the instances allocated so far
  status,   \* running, done, error, panic, compile_error
  err,      \* the error of status error / compile_error
  result,   \* the value of status done
  last,     \* history: the instruction executed by the latest step
  lexer,    \* the Lexer, the tokens of tokenize and its latest iteration
  parser,   \* the Parser, the statements of parse and its latest step
  repl      \* the Interpreter of the REPL and its latest input

vars ==
  << prog, build, stack, frames, globals, heap, status, err, result, last,
     lexer, parser, repl >>

Machine ==
  [stack |-> stack, frames |-> frames, globals |-> globals, heap |-> heap,
   status |-> status, err |-> err, result |-> result]

NoInstruction ==
  [op |-> "", at |-> 0, after |-> 0, via |-> "", base |-> 0]

Load(vm) ==
  /\ stack = vm.stack
  /\ frames = vm.frames
  /\ globals = vm.globals
  /\ heap = vm.heap
  /\ status = vm.status
  /\ err = vm.err
  /\ result = vm.result

\* run: a CompileError is returned before any VM exists
Start(c) ==
  IF c.err # ""
  THEN [NewVm(NewChunk) EXCEPT !.status = "compile_error", !.err = c.err,
                               !.frames = <<>>]
  ELSE NewVm(c.chunk)

\* the programs are given as syntax trees: the lexer is not running
NoLexer == Tokenizing(NewLexer(<<>>), <<>>, FALSE, NoIteration)

\* and neither is the parser
NoParser ==
  Parsing(NewParser(<<Tok("Eof", <<>>)>>), <<>>, FALSE, NoStep)

\* the REPL: its Interpreter, the interpreter as it was before the latest
\* input, the name and the outcome of the latest input, and the number of
\* inputs so far
Prompt(it, was, input, k, v, e, n) ==
  [it |-> it, was |-> was, input |-> input, k |-> k, v |-> v, e |-> e,
   n |-> n]

\* and neither is the REPL
NoRepl == Prompt(NewInterpreter, NewInterpreter, "", "", NoneV, "", 0)

Init ==
  /\ prog \in ProgramNames
  /\ last = NoInstruction
  /\ \E vm \in {Start(compile(Program(prog)))} : Load(vm)
  /\ build \in Builds
  /\ lexer = NoLexer
  /\ parser = NoParser
  /\ repl = NoRepl

\* one iteration of the loop of run_chunk, for an opcode in ops
Exec(ops) ==
  /\ status = "running"
  /\ Fetch(Machine) \in ops
  /\ \E vm \in {step(Machine, build)} :
     LET frame == Last(frames)
         op == Fetch(Machine)
     IN /\ stack' = vm.stack
        /\ frames' = vm.frames
        /\ globals' = vm.globals
        /\ heap' = vm.heap
        /\ status' = vm.status
        /\ err' = vm.err
        /\ result' = vm.result
        /\ last' = [op |-> op, at |-> frame.ip,
                    after |-> frame.ip + 1 + StepReads(op),
                    via |-> frame.via, base |-> frame.base]
  /\ UNCHANGED << prog, build, lexer, parser, repl >>

JumpOps ==
  {"Jump", "JumpFalse", "JumpTrue", "JumpFalsePeek", "JumpTruePeek"}

CheckOps == {"IsSome", "IsNone", "IsOk", "IsErr", "MatchLit", "MatchRange"}

CallOps == {"MakeClosure", "Call", "CallMethod"}

ReturnOps == {"Return", "ReturnNil"}

\* an array has reached ArrayCap elements: the model stops growing it
Full(cells) ==
  \E i \in 1..Len(cells) :
    "items" \in DOMAIN cells[i] /\ Len(cells[i].items) >= ArrayCap

\* code[ip] is past the end of the code or no opcode
StepFault ==
  /\ status = "running"
  /\ Exec({"oob", "bad"})

StepJump ==
  /\ status = "running"
  /\ Exec(JumpOps)

StepCheck ==
  /\ status = "running"
  /\ Exec(CheckOps)

\* CallMethod has no limit on the frames; the model stops at FrameCap
StepCall ==
  /\ status = "running"
  /\ Fetch(Machine) = "CallMethod" => Len(frames) < FrameCap
  /\ Fetch(Machine) = "Call" => ~Full(heap)
  /\ Exec(CallOps)

StepReturn ==
  /\ status = "running"
  /\ Exec(ReturnOps)

StepHalt ==
  /\ status = "running"
  /\ Exec({"Halt"})

StepData ==
  /\ status = "running"
  /\ Exec({Ops[i] : i \in 1..Len(Ops)}
          \ (JumpOps \cup CheckOps \cup CallOps \cup ReturnOps \cup {"Halt"}))

Next ==
  \/ StepData
  \/ StepJump
  \/ StepCheck
  \/ StepCall
  \/ StepReturn
  \/ StepHalt
  \/ StepFault

Spec == Init /\ [][Next]_vars

\* every opcode the programs execute has a handler in the model
Modelled == status # "unmodelled"

\* ------------------------------------------------------------------------
\* run over the operator expressions: the programs
\*     var a = l
\*     var b = r
\*     a op b
\* for the binary operators and the operand expressions below, and the
\* program that ends in -(-a).  prog is the operator.
\* ------------------------------------------------------------------------

\* 0, 1, 3, -2, i64::MAX, i64::MIN, 3.5, 2.0, 0.0, true, false, '', 'a',
\* None
OperandExprs ==
  << EInt(0), EInt(1), EInt(3), EUnary("Neg", EInt(2)), EInt(MaxInt),
     EBinary("Sub", EUnary("Neg", EInt(MaxInt)), EInt(1)),
     EFloat(7), EFloat(4), EFloat(0), EBool(TRUE), EBool(FALSE),
     EStr(""), EStr("a"), ENone >>

ExprOps ==
  {"And", "Or", "Add", "Sub", "IntDiv", "Mod", "Lt", "Le", "Gt", "Ge", "Eq"}

OperatorProgram(op, l, r) ==
  << SVar("a", l), SVar("b", r),
     SExpr(IF op = "Neg" THEN EUnary("Neg", EUnary("Neg", EIdent("a")))
           ELSE EBinary(op, EIdent("a"), EIdent("b"))) >>

ExprInit ==
  /\ prog \in ExprOps \cup {"Neg"}
  /\ last = NoInstruction
  /\ \E i, j \in DOMAIN OperandExprs :
       /\ prog = "Neg" => j = 1
       /\ \E vm \in {Start(compile(OperatorProgram(prog, OperandExprs[i],
                                                   OperandExprs[j])))} :
            Load(vm)
  /\ build \in Builds
  /\ lexer = NoLexer
  /\ parser = NoParser
  /\ repl = NoRepl

ExprNext ==
  \/ StepData
  \/ StepJump
  \/ StepHalt

ExprSpec == ExprInit /\ [][ExprNext]_vars

\* ------------------------------------------------------------------------
\* The lexer as a state machine: tokenize over the sources of the model,
\* one action per branch of its loop
\* ------------------------------------------------------------------------

\* the lines of the sources, without their line end
Lines ==
  { <<"a">>,                \* an identifier at indentation 0
    <<" ", "a">>,           \* at indentation 1
    <<" ", " ", "n">>,      \* at indentation 2
    <<>>,                   \* an empty line
    <<" ", "#", "a">>,      \* a comment-only line
    <<" ", "\r">>,          \* a whitespace-only line that ends in \r\n
    <<"$", "a">>,           \* an unrecognised character
    <<"'", "a">>,           \* an unterminated string
    <<"'", "a", "\\">>,     \* an unterminated string, \ before the line end
    <<"'", "a", "'">>,      \* a string
    <<"\t", "a">> }         \* a tab in the indentation

\* the last line of a source that does not end in a line end
Tails == { <<>>, <<"a">>, <<"$">>, <<"'", "'", "'", "a">> }

\* the sources of at most n lines and a tail
RECURSIVE Texts(_)
Texts(n) ==
  IF n = 0 THEN Tails
  ELSE Tails \cup {l \o <<"\n">> \o t : l \in Lines, t \in Texts(n - 1)}

Sources == Texts(MaxLines)

\* no program is loaded while the lexer runs
NoProgram ==
  /\ prog = ""
  /\ build = "debug"
  /\ last = NoInstruction
  /\ Load([NewVm(NewChunk) EXCEPT !.status = "idle", !.frames = <<>>])

LexInit ==
  /\ \E source \in Sources :
       lexer = Tokenizing(NewLexer(source), <<>>, FALSE, NoIteration)
  /\ parser = NoParser
  /\ NoProgram
  /\ repl = NoRepl

\* one iteration of the loop of tokenize whose outcome is k
LexIterate(k) ==
  /\ ~lexer.done
  /\ \E t \in {tokenize_step(lexer)} :
       /\ t.last.k = k
       /\ lexer' = t
  /\ UNCHANGED << prog, build, stack, frames, globals, heap, status, err,
                  result, last, parser, repl >>

\* next_token returned Ok(Some(tok))
LexToken ==
  /\ ~lexer.done
  /\ LexIterate("tok")

\* next_token returned Ok(None)
LexSkip ==
  /\ ~lexer.done
  /\ LexIterate("none")

\* next_token returned Err(e)
LexError ==
  /\ ~lexer.done
  /\ LexIterate("err")

\* the end of the source
LexEof ==
  /\ ~lexer.done
  /\ LexIterate("eof")

LexNext ==
  \/ LexToken
  \/ LexSkip
  \/ LexError
  \/ LexEof

LexSpec == LexInit /\ [][LexNext]_vars

\* ------------------------------------------------------------------------
\* The parser as a state machine: parse over the tokens of the sources
\* below, one action per iteration of its loop
\* ------------------------------------------------------------------------

\* the lines of the sources of the parser, without their line end
ParseLines ==
  { <<"a">>,                                            \* a
    <<" ", " ", "n">>,                                  \*   n
    <<"l", "e", "t", " ", "a", "=", "n">>,              \* let a=n
    <<"l", "e", "t", " ", "=", "a">>,                   \* let =a
    <<"m", "a", "t", "c", "h", " ", "a">>,              \* match a
    <<" ", "c", "a", "s", "e", " ", "a", "=", ">", "n">>, \*  case a=>n
    <<" ", "p", "a", "s", "s">>,                        \*  pass
    <<"w", "h", "i", "l", "e", " ", "a">>,              \* while a
    <<"a", "=", "=", "n">>,                             \* a==n
    <<"'", "a", "'", "=", "n">> }                       \* 'a'=n

\* the sources of at most n lines
RECURSIVE ParseTexts(_)
ParseTexts(n) ==
  IF n = 0 THEN {<<>>}
  ELSE {<<>>} \cup
       {l \o <<"\n">> \o t : l \in ParseLines, t \in ParseTexts(n - 1)}

ParseSources == ParseTexts(MaxParseLines)

ParseInit ==
  /\ \E source \in ParseSources :
       parser = Parsing(NewParser(tokenize(source).tokens), <<>>, FALSE,
                        NoStep)
  /\ lexer = NoLexer
  /\ NoProgram
  /\ repl = NoRepl

ParseStep(t) ==
  /\ parser' = t
  /\ UNCHANGED << prog, build, stack, frames, globals, heap, status, err,
                  result, last, lexer, repl >>

\* parse, up to its loop
ParseBegin ==
  /\ parser.last.k = ""
  /\ ParseStep(parse_begin(parser))

\* an iteration of the loop of parse; the errors of a parse that does not
\* end are cut off at ErrorCap
ParseStmt ==
  /\ parser.last.k \in {"begin", "stmt"}
  /\ peek_kind(parser.p) # "Eof"
  /\ Len(parser.p.errors) < ErrorCap
  /\ \E t \in {parse_iteration(parser)} : ParseStep(t)

\* the exit of the loop of parse
ParseEnd ==
  /\ parser.last.k \in {"begin", "stmt"}
  /\ peek_kind(parser.p) = "Eof"
  /\ ParseStep(parse_end(parser))

ParseNext ==
  \/ ParseBegin
  \/ ParseStmt
  \/ ParseEnd

ParseSpec == ParseInit /\ [][ParseNext]_vars

\* ------------------------------------------------------------------------
\* parse over the expression statements `a op c op e` for the infix
\* operators below, given as the tokens of the line
\* ------------------------------------------------------------------------

InfixKinds ==
  {"Or", "And", "EqualEqual", "Less", "DotDot", "DotDotEqual", "Pipe",
   "Caret", "Ampersand", "LessLess", "Plus", "Minus", "Star", "StarStar"}

Chain(op1, op2) ==
  << Tok("Identifier", <<"a">>), Tok(op1, <<>>), Tok("Identifier", <<"c">>),
     Tok(op2, <<>>), Tok("Identifier", <<"e">>), Tok("Newline", <<>>),
     Tok("Eof", <<>>) >>

PrecInit ==
  /\ \E op1, op2 \in InfixKinds :
       parser = Parsing(NewParser(Chain(op1, op2)), <<>>, FALSE, NoStep)
  /\ lexer = NoLexer
  /\ NoProgram
  /\ repl = NoRepl

PrecSpec == PrecInit /\ [][ParseNext]_vars

\* ------------------------------------------------------------------------
\* The REPL (neba_repl/src/main.rs) over the tree-walking interpreter: one
\* Interpreter is created at the start and reused for every input; `:clear`
\* replaces it.  The inputs are given as syntax trees.
\* ------------------------------------------------------------------------

\* inputs since the Interpreter was created
MaxInputs == 3

CallOf(name) == SExpr(ECall(EIdent(name), <<>>))

\* while i < 2
\*     i += 1
\*     body
LoopOver(body) ==
  SWhile(EBinary("Lt", EIdent("i"), EInt(2)),
         << SAssign(EIdent("i"), "AddAssign", EInt(1)) >> \o body)

ReplInput(name) ==
  CASE name = "fn brk" -> << SFn("brk", <<>>, << SBreak >>) >>
    [] name = "fn cnt" -> << SFn("cnt", <<>>, << SContinue >>) >>
    [] name = "fn ok" -> << SFn("ok", <<>>, << SReturn(<< EInt(1) >>) >>) >>
    [] name = "fn g" ->  \* fn g(a = zz), zz is not defined
         << SFn("g", << Param("a", << EIdent("zz") >>) >>, << SPass >>) >>
    [] name = "class B" ->  \* the field v = zz
         << SClass("B", << Field("v", << EIdent("zz") >>) >>, <<>>) >>
    [] name = "class P" ->  \* __init__(self) evaluates zz
         << SClass("P", <<>>,
                   << SFn("__init__", << Param("self", <<>>) >>,
                          << SExpr(EIdent("zz")) >>) >>) >>
    [] name = "var i" -> << SVar("i", EInt(0)) >>
    [] name = "loop brk" -> << LoopOver(<< CallOf("brk") >>) >>
    [] name = "loop cnt" ->
         << LoopOver(<< CallOf("cnt"),
                        SAssign(EIdent("i"), "AddAssign", EInt(10)) >>) >>
    [] OTHER -> << CallOf(name) >>

Callees == {"brk", "cnt", "ok", "g", "B", "P"}

ReplInputs ==
  {"fn brk", "fn cnt", "fn ok", "fn g", "class B", "class P", "var i",
   "loop brk", "loop cnt"} \cup Callees

\* the loop of eval_and_print over the statements from i on: every
\* statement is executed, whatever the one before returned; shown is the
\* outcome of the latest one
RECURSIVE eval_and_print(_, _, _, _)
eval_and_print(it, stmts, i, shown) ==
  IF i > Len(stmts) THEN [shown EXCEPT !.it = it]
  ELSE With(exec_stmt(it, stmts[i]), LAMBDA r :
         eval_and_print(r.it, stmts, i + 1, r))

ReplInit ==
  /\ repl = NoRepl
  /\ lexer = NoLexer
  /\ parser = NoParser
  /\ NoProgram

\* a complete input: eval_and_print on the Interpreter of the REPL
ReplEval ==
  /\ repl.n < MaxInputs
  /\ \E input \in ReplInputs :
       \E r \in {eval_and_print(repl.it, ReplInput(input), 1,
                                IOk(repl.it, NoneV))} :
         repl' = Prompt(r.it, repl.it, input, r.k, r.v, r.e, repl.n + 1)
  /\ UNCHANGED << prog, build, stack, frames, globals, heap, status, err,
                  result, last, lexer, parser >>

\* the command :clear: a new Interpreter
ReplClear ==
  /\ repl.n > 0
  /\ repl' = Prompt(NewInterpreter, repl.it, ":clear", "", NoneV, "", 0)
  /\ UNCHANGED << prog, build, stack, frames, globals, heap, status, err,
                  result, last, lexer, parser >>

ReplNext ==
  \/ ReplEval
  \/ ReplClear

ReplSpec == ReplInit /\ [][ReplNext]_vars

\* ------------------------------------------------------------------------
\* Properties
\* ------------------------------------------------------------------------

\* the chunk and the instruction pointer of the active frame
Running == Last(frames).chunk
Ip == Last(frames).ip

OpSet == {Ops[i] : i \in 1..Len(Ops)}

\* C1: for every opcode the bytes the VM reads while executing it are the
\* opcode and the operand_bytes the compiler emits after it, and after an
\* instruction that does not transfer control the IP is on an opcode byte
\* the compiler emitted.
OperandWidthsAgree ==
  /\ last.op \in OpSet => last.after = last.at + 1 + operand_bytes(last.op)
  /\ (/\ status = "running"
      /\ last.op \in OpSet \ (JumpOps \cup CheckOps \cup ReturnOps
                              \cup {"Call", "CallMethod", "IterNext", "Halt"}))
     => /\ Ip < Len(Running.code)
        /\ Running.ops[Ip + 1]

\* C2: when a program runs to Halt without error, Halt has popped the
\* result off a stack that held nothing else, and no frame is left.
HaltLeavesNothing ==
  (status = "done" /\ last.op = "Halt") => (stack = <<>> /\ frames = <<>>)

\* the programs that are one match expression, and the subject of each
MatchPrograms ==
  {"match_ident", "match_some", "match_ok", "match_err", "match_nested",
   "match_ctor", "match_lit", "match_range"}

Subject(name) ==
  CASE name = "match_ident" -> IntV(5)
    [] name = "match_some" -> SomeV(IntV(42))
    [] name = "match_ok" -> OkV(IntV(42))
    [] name = "match_err" -> ErrV(IntV(42))
    [] name = "match_nested" -> SomeV(ErrV(IntV(7)))
    [] name = "match_ctor" -> OkV(IntV(1))
    [] OTHER -> IntV(1)  \* match_lit, match_range

\* C3: a pattern check leaves the stack as it found it, the subject on top:
\* when a check has jumped to the next arm, the stack of a program that is
\* one match expression holds the subject and nothing else.
ChecksPeekSubject ==
  (/\ prog \in MatchPrograms
   /\ status = "running"
   /\ last.op \in CheckOps
   /\ Ip # last.after)
  => (Len(stack) = 1 /\ ValueEq(stack[1], Subject(prog)))

\* C4: match v { Some(x) => x } yields the inner value of v, and likewise
\* for Ok(x) and Err(x): the three programs end with the result 42.
MatchYieldsInner ==
  (prog \in {"match_some", "match_ok", "match_err"} /\ status # "running")
  => (status = "done" /\ ValueEq(result, IntV(42)))

\* the offset of the jump operand after the opcode, for the opcodes whose
\* forward jump always skips at least one byte; 0 for the others.  (The
\* success Jump of the last alternative of an or-pattern is patched with the
\* offset 0, so the operand of a Jump does not tell whether it was patched.)
JumpOperandAt(op) ==
  CASE op \in (JumpOps \ {"Jump"}) \cup {"IsSome", "IsNone", "IsOk", "IsErr"} -> 1
    [] op \in {"MatchLit", "IterNext"} -> 3
    [] op = "MatchRange" -> 6
    [] OTHER -> 0

\* the instruction at offset o: its jump operand is not the placeholder 0,
\* and the constant operands of MatchLit and MatchRange are indices of
\* constants
PatchedAt(chunk, o, op) ==
  /\ JumpOperandAt(op) # 0 => read_i16(chunk.code, o + JumpOperandAt(op)) # 0
  /\ op \in {"MatchLit", "MatchRange"}
     => read_u16(chunk.code, o + 1) < Len(chunk.constants)
  /\ op = "MatchRange" => read_u16(chunk.code, o + 3) < Len(chunk.constants)

Patched(chunk) ==
  \A o \in 0..(Len(chunk.code) - 1) :
    chunk.ops[o + 1] => PatchedAt(chunk, o, from_u8(chunk.code[o + 1]))

\* C5: in a compiled chunk every forward jump operand has been patched
\* with its offset before the chunk runs: no placeholder remains and
\* patching has overwritten no other operand.
JumpsPatched == frames # <<>> => Patched(Running)

\* C6: every jump offset, applied to the IP after the operand, lands on an
\* opcode boundary inside the code.
JumpsLandOnOpcodes ==
  (status = "running" /\ last.op \in JumpOps \cup CheckOps)
  => /\ Ip < Len(Running.code)
     /\ Running.ops[Ip + 1]

\* C7: stack.len() >= frame.base for the active frame after every
\* instruction.
StackAboveBase == status = "running" => Len(stack) >= Last(frames).base

\* C8: when a closure entered by Call returns, the stack is the caller's
\* stack below the callee slot plus the return value: its length is the
\* base of the frame that returned.
ReturnRestoresCaller ==
  (/\ status \in {"running", "done"}
   /\ last.op \in ReturnOps
   /\ last.via = "Call")
  => Len(stack) = last.base

\* C9: a method called by CallMethod with the argument 5 and returning its
\* parameter returns 5: the parameter reads its own argument.
MethodReadsArgument ==
  (prog \in {"method_self", "method_no_self"} /\ status # "running")
  => (status = "done" /\ ValueEq(result, IntV(5)))

\* C10: the number of active frames never exceeds FRAMES_MAX, whichever
\* call opcode pushes them.
FramesBounded == Len(frames) <= FRAMES_MAX


\* ------------------------------------------------------------------------
\* Properties of closures (specification Spec)
\* ------------------------------------------------------------------------

\* the closures on the stack
StackClosures == {stack[i].v : i \in {j \in DOMAIN stack : stack[j].t = "Closure"}}

\* C17: a function sees the value a variable of its defining scope had when
\* its closure was made: with x = 1 at `fn f`, f() after `x = 2` yields 1
ClosureSeesSnapshot ==
  prog = "closure_snapshot" /\ status # "running"
  => status = "done" /\ ValueEq(result, IntV(1))

\* the offsets of the CallMethod instructions of chunk that call method
CallsOf(chunk, method) ==
  {o \in 0..(Len(chunk.code) - 4) :
     /\ chunk.ops[o + 1]
     /\ from_u8(chunk.code[o + 1]) = "CallMethod"
     /\ read_u16(chunk.code, o + 1) < Len(chunk.names)
     /\ chunk.names[read_u16(chunk.code, o + 1) + 1] = method}

\* the programs whose class P defines __init__, with and without
\* parameters besides self
InitPrograms == {"init_once", "init_self"}

\* C18: the constructor of a class with __init__ calls __init__ once, by
\* one CallMethod of its code, and then returns the instance
InitCalledOnce ==
  prog \in InitPrograms
  => /\ \A c \in StackClosures :
          c.proto.name = "P" =>
            Cardinality(CallsOf(c.proto.chunk, "__init__")) = 1
     /\ status # "running" => status = "done" /\ result.t = "Instance"

\* C19: every closure has arity <= max_arity and one default for each
\* parameter between them
ClosureArityShape ==
  \A c \in StackClosures :
     /\ c.proto.arity <= c.proto.max_arity
     /\ Len(c.proto.defaults) = c.proto.max_arity - c.proto.arity

\* C20: a call with fewer arguments than max_arity puts the default of
\* each missing parameter in its slot: P() with __init__(self, x = 5)
\* enters the constructor with x = 5
DefaultsFillMissing ==
  /\ prog = "ctor_default"
  /\ status = "running"
  /\ last.op = "Call"
  /\ Len(frames) = 2
  => /\ Len(stack) > Last(frames).base
     /\ ValueEq(stack[Last(frames).base + 1], IntV(5))

\* ------------------------------------------------------------------------
\* Properties of the operators (specification ExprSpec)
\* ------------------------------------------------------------------------

\* the operands of the operator program, once `var a` and `var b` have run
Defined(name) == name \in DOMAIN globals
OperandA == globals["a"].v
OperandB == globals["b"].v

\* the same value of the same type
SameValue(x, y) == x.t = y.t /\ ValueEq(x, y)

\* the tree-walking interpreter on `l and r` and `l or r`
\* (neba_interpreter/src/interpreter.rs, eval_expr)
eval_short_circuit(op, l, r) ==
  CASE op = "And" /\ ~is_truthy(l) -> BoolV(FALSE)
    [] op = "Or" /\ is_truthy(l) -> BoolV(TRUE)
    [] OTHER -> BoolV(is_truthy(r))

\* C21: `a and b` and `a or b` yield in the VM the value the tree-walking
\* interpreter yields
ShortCircuitMatchesReference ==
  prog \in {"And", "Or"} /\ status = "done"
  => SameValue(result, eval_short_circuit(prog, OperandA, OperandB))

OrderedOps == {"Lt", "Le", "Gt", "Ge"}

\* neither both numbers nor both strings
Heterogeneous(l, r) == ~Numeric(l, r) /\ ~(l.t = "Str" /\ r.t = "Str")

\* C25: <, <=, >, >= on operands that are neither both numbers nor both
\* strings raise TypeError
OrderedCompareTypeError ==
  /\ prog \in OrderedOps
  /\ last.op = prog
  /\ Heterogeneous(OperandA, OperandB)
  => status = "error" /\ err = "TypeError"

\* C26: with a divisor other than zero, `//` on two Ints yields an Int and
\* on two numbers of which one is a Float yields the Float that is the
\* floor of the quotient
IntDivYieldsFloorFloat ==
  /\ prog = "IntDiv"
  /\ last.op = "IntDiv"
  /\ Numeric(OperandA, OperandB)
  /\ OperandB.v # 0
  => /\ status = "running"
     /\ stack # <<>>
     /\ IF OperandA.t = "Int" /\ OperandB.t = "Int"
        THEN Last(stack).t = "Int"
        ELSE SameValue(Last(stack),
                       FloatV(2 * FloorDiv(as_float(OperandA)[1],
                                           as_float(OperandB)[1])))

\* C27: Int + Int yields the sum wrapped to the width of Int, and -(-n)
\* yields n for every Int n; neither fails
IntOverflowWraps ==
  /\ /\ prog = "Add"
     /\ last.op = "Add"
     /\ Defined("a") /\ Defined("b")
     /\ OperandA.t = "Int" /\ OperandB.t = "Int"
     => /\ status = "running"
        /\ stack # <<>>
        /\ SameValue(Last(stack), IntV(WrapInt(OperandA.v + OperandB.v)))
  /\ /\ prog = "Neg"
     /\ status # "running"
     /\ Defined("a")
     /\ OperandA.t = "Int"
     => status = "done" /\ SameValue(result, OperandA)

\* ------------------------------------------------------------------------
\* Properties of the compiler and the run loop (specification Spec)
\* ------------------------------------------------------------------------

\* the programs with an Error node: ExprKind::Error, Pattern::Error
ErrorPrograms == {"expr_error", "pattern_error"}

\* C23: a program with an Error node is not compiled: run ends in a
\* compile error, and no arm with an Error pattern is ever taken
ErrorNodeRejected ==
  prog \in ErrorPrograms => status = "compile_error"

\* C24: a `return` in the script frame ends the run normally: the frame
\* stack is exhausted and the returned value is the result of the script
ScriptReturnEndsRun ==
  prog = "script_return" /\ status # "running"
  => status = "done" /\ frames = <<>> /\ SameValue(result, IntV(5))

LetGlobalPrograms == {"assign_let_global", "compound_let_global"}
LetLocalPrograms == {"assign_let_local", "compound_let_local"}

\* C28: `x = 2` and `x += 2` after `let x = 1` are rejected, by a compile
\* error when x is a local and by AssignImmutable when x is a global, and
\* x keeps the value 1
LetRejectsAssignment ==
  /\ prog \in LetLocalPrograms => status = "compile_error"
  /\ prog \in LetGlobalPrograms
     => /\ status # "running" => status = "error" /\ err = "AssignImmutable"
        /\ "x" \in DOMAIN globals => SameValue(globals["x"].v, IntV(1))

\* the compound assignment to the global reached its store and was rejected
CompoundStoreRejected ==
  /\ prog = "compound_let_global"
  /\ last.op = "StoreGlobal"
  /\ status = "error"
  /\ "x" \in DOMAIN globals

\* `let r = ...` at the top of the script has just defined the global r
DefinedR == last.op = "DefGlobal" /\ "r" \in DOMAIN globals

\* C29: a match used as an rvalue hands its arm's value to its consumer
\* and leaves the stack and the slots of the locals as a plain expression
\* would: after `let r = match 5 { case y => y * 3 }` r is 15 and the stack
\* is as before the statement, `10 + match ...` is 25, and a local r bound
\* to the match reads 15
MatchRvalueBalanced ==
  /\ prog = "match_let" /\ DefinedR
     => stack = <<>> /\ SameValue(globals["r"].v, IntV(15))
  /\ prog = "match_operand" /\ DefinedR
     => stack = <<>> /\ SameValue(globals["r"].v, IntV(25))
  /\ prog = "match_local" /\ status # "running"
     => status = "done" /\ SameValue(result, IntV(15))

\* C30: an `if` whose then-block declares a local leaves the same stack
\* height whichever branch ran (one result, taken by `let r`), and a local
\* declared after the `if` is read from its own slot
IfBlockBalanced ==
  /\ prog \in {"if_taken", "if_not_taken"} /\ DefinedR => stack = <<>>
  /\ prog = "if_then_local" /\ status # "running"
     => status = "done" /\ SameValue(result, IntV(7))

\* a divisor that is the Int or the Float zero
ZeroDivisor(r) == r.t \in {"Int", "Float"} /\ r.v = 0

\* C37: `//` and `%` on operands that are not both numbers (the divisor
\* not being zero) end in a TypeError, and no operands make the two
\* helpers abort the process
IntDivModTypeError ==
  /\ prog \in {"IntDiv", "Mod"}
  /\ last.op = prog
  => /\ status # "panic"
     /\ ~Numeric(OperandA, OperandB) /\ ~ZeroDivisor(OperandB)
        => status = "error" /\ err = "TypeError"

\* the jump at offset o of chunk, if op is one, leads into the code
JumpFits(chunk, o, op) ==
  JumpOperandAt(op) # 0
  => (o + JumpOperandAt(op) + 2
        + read_i16(chunk.code, o + JumpOperandAt(op)))
     \in 0..Len(chunk.code)

\* C40: the compiler emits no truncated operand.  In the chunk it hands
\* over every jump operand is the distance to its target, so the jump leads
\* into the code, and the operand of a load of a local is the slot of that
\* local: the program that reads the local in slot 256 stores 5 into r.
\* A program whose distances or slots do not fit is a compile error.
OperandsNotTruncated ==
  /\ (status = "running" /\ last = NoInstruction)
     => \A o \in 0..(Len(Running.code) - 1) :
          Running.ops[o + 1]
          => JumpFits(Running, o, from_u8(Running.code[o + 1]))
  /\ (prog = "local_256" /\ status = "done")
     => SameValue(globals["r"].v, IntV(5))

\* ------------------------------------------------------------------------
\* Properties of the tree-walking interpreter (specification ReplSpec)
\* ------------------------------------------------------------------------

\* the latest input was the call of a callee
Called == repl.input \in Callees

\* the value of i in the Interpreter it
ValueOfI(it) == env_get(it, "i")[1].v

\* C38: a function call never returns __Break or __Continue as its value,
\* and a break or continue executed in a called function neither ends nor
\* continues the loop of the caller: a loop that returns has run until its
\* condition was false, and has run its body to the end every time
SentinelsStayInside ==
  /\ Called /\ repl.k = "ok" => ~IsSentinel(repl.v)
  /\ repl.input = "loop brk" /\ repl.k = "ok" => ValueOfI(repl.it) >= 2
  /\ repl.input = "loop cnt" /\ repl.k = "ok"
     => (ValueOfI(repl.it) - ValueOfI(repl.was)) % 11 = 0

\* C39: after a call, returned with a value or with an error, depth and
\* the current environment of the interpreter are what they were before
\* the call
CallRestoresInterpreter ==
  Called => /\ repl.it.depth = repl.was.depth
            /\ repl.it.env = repl.was.env

\* ------------------------------------------------------------------------
\* Properties of loops and arrays (specification Spec)
\* ------------------------------------------------------------------------

\* the programs that end with a loop statement at the top of the script:
\* the stack is empty before the loop, and after it the script pushes the
\* Nil that Halt pops
LoopPrograms ==
  {"while_exhaust", "while_break", "while_continue", "for_exhaust",
   "for_break", "for_continue"}

\* C31: after a `while` or `for` loop the stack has the height it had
\* before the loop on every exit path (condition false or iterator
\* exhausted, break, iterations cut short by continue): the locals of the
\* body and the three hidden slots of a `for` are popped exactly once
LoopLeavesHeight ==
  prog \in LoopPrograms /\ status # "running"
    => status = "done" /\ stack = <<>>

\* what each summing program leaves in s when every `for` runs its body
\* once per element, in order: the result of the script
ExpectedSum ==
  [p \in {"for_sum", "for_range", "for_twice"} |-> 123]
    @@ [p \in {"for_nested"} |-> 16] @@ [p \in {"for_after_break"} |-> 34]

\* C32: a `for` over an array of length n that the loop does not modify
\* runs its body exactly n times with the loop variable bound to the
\* elements 0..n-1 in order, for every loop of the program: a single
\* loop, a range, nested loops, a loop after an earlier loop
ForVisitsEachOnce ==
  prog \in DOMAIN ExpectedSum /\ status # "running"
    => status = "done" /\ SameValue(result, IntV(ExpectedSum[prog]))

\* the elements of the array the global a denotes
ItemsOfA == heap[globals["a"].v.v].items

\* C33: `a[i] op= v` stores a[i] op v into element i of the array a
\* denotes, leaves the other elements as they were, raises no error and
\* leaves the stack at its height: after `var a = [1, 2]`, `a[0] += 5`
\* the script's `a[0]` is 6, a[1] is 2 and nothing else is on the stack
CompoundIndexStores ==
  prog = "index_compound" /\ status # "running"
    => /\ status = "done"
       /\ SameValue(result, IntV(6))
       /\ SameValue(ItemsOfA[2], IntV(2))
       /\ stack = <<>>

\* to_iter of the tree-walker: the Vec of an Array is cloned, so the
\* loop of exec_stmt runs over the elements the array had at loop entry
to_iter(cells, val) ==
  IF val.t = "Array" THEN cells[val.v].items ELSE << >>

\* the values exec_stmt binds to x in `for x in a` with a = [1, 2],
\* whatever the body pushes onto a
ReferenceBound == to_iter(<< ArrayCell(<< IntV(1), IntV(2) >>) >>, ArrayV(1))

\* the values the VM has bound to x so far: the body records them in seen
Seen == heap[globals["seen"].v.v].items

\* C34: a `for` whose body pushes onto the array it iterates runs the
\* same iterations with the same bound values in the VM as in the
\* tree-walker, and ends: the values bound so far are a prefix of the
\* reference's, and all of them once the run has ended
ForMatchesReference ==
  prog \in {"for_push", "for_push_all"} /\ Defined("seen")
    => /\ Len(Seen) <= Len(ReferenceBound)
       /\ \A i \in 1..Len(Seen) : SameValue(Seen[i], ReferenceBound[i])
       /\ status # "running"
          => status = "done" /\ Len(Seen) = Len(ReferenceBound)

\* the programs whose function reads a variable of its defining scope
\* that is rebound after the function is made: a global, a local of the
\* enclosing function
CapturePrograms == {"closure_snapshot", "closure_local"}

\* C35: the capture of the VM behaves as the tree-walker's: calling a
\* function that reads a variable of its defining scope rebound after the
\* function was made yields in the VM the value the reference yields
CaptureMatchesReference ==
  prog \in CapturePrograms /\ status # "running"
    => /\ status = "done"
       /\ interp_run(Program(prog)).k = "ok"
       /\ SameValue(result, interp_run(Program(prog)).v)

\* C36: the value stack never holds more than STACK_MAX slots: a push
\* that would exceed the maximum is refused with a runtime error
StackWithinMax == Len(stack) <= STACK_MAX

\* ------------------------------------------------------------------------
\* Properties of the lexer (specification LexSpec)
\* ------------------------------------------------------------------------

\* the lexer before the latest iteration of tokenize
Before == lexer.last.lx

\* the tokens the latest iteration pushed
Pushed == SubSeq(lexer.tokens, lexer.last.n + 1, Len(lexer.tokens))

Count(tokens, kind) ==
  Cardinality({i \in DOMAIN tokens : tokens[i].kind = kind})

\* what is left to do: the characters not yet consumed and the blocks open
Remaining(t) == 2 * (Len(t.lx.source) - t.lx.pos) + Len(t.lx.indent_stack)

\* C12: tokenize terminates (every iteration of its loop but the last one
\* consumes a character or closes a block) and its token list ends in
\* exactly one Eof; when there is no lex error, it has as many Indent as
\* Dedent tokens
TokenizeEndsInEof ==
  /\ [][lexer'.done \/ Remaining(lexer') < Remaining(lexer)]_vars
  /\ [](lexer.done =>
          /\ Count(lexer.tokens, "Eof") = 1
          /\ Last(lexer.tokens).kind = "Eof"
          /\ lexer.lx.pending = <<>>
          /\ lexer.lx.errors = <<>> =>
               Count(lexer.tokens, "Indent") = Count(lexer.tokens, "Dedent"))

\* tokenize has ended without a lex error on a source with two nested blocks
TwoBlocksClosed ==
  /\ lexer.done
  /\ lexer.lx.errors = <<>>
  /\ Count(lexer.tokens, "Indent") = 2
  /\ Count(lexer.tokens, "Dedent") = 2

\* C13: on an unrecognised character the lexer records one error, consumes
\* that one character (the Unknown token holds it) and goes on from the
\* character right after it
UnknownConsumesOne ==
  lexer.last.e = "UnexpectedCharacter" =>
    /\ Len(lexer.lx.errors) = Len(Before.errors) + 1
    /\ Pushed = <<Tok("Unknown", <<lexer.lx.source[lexer.last.stop]>>)>>
    /\ lexer.lx.pos = lexer.last.stop

\* the indentation of the line the lexer lx is at the start of
LineIndent(lx) == SkipSpaces(lx).pos - lx.pos

\* the latest iteration processed the indentation of a line with
\* something on it that is indented less than the open block
Dedenting ==
  /\ lexer.last.k \in {"tok", "none", "err"}
  /\ Before.column = 1
  /\ peek(SkipSpaces(Before)) \notin {"\t", "\n", "#", NoChar}
  /\ LineIndent(Before) < Last(Before.indent_stack)

\* C14: a line indented less than the top of the indent stack pops the
\* entries down to the one equal to its indentation, one Dedent for each
\* entry popped; when no entry equals it, the error is
\* InconsistentIndentation
DedentPerPop ==
  Dedenting =>
    IF \E i \in DOMAIN Before.indent_stack :
         Before.indent_stack[i] = LineIndent(Before)
    THEN /\ lexer.last.k = "tok"
         /\ Last(lexer.lx.indent_stack) = LineIndent(Before)
         /\ lexer.lx.indent_stack =
              SubSeq(Before.indent_stack, 1, Len(lexer.lx.indent_stack))
         /\ Pushed \o lexer.lx.pending =
              Dedents(Len(Before.indent_stack) - Len(lexer.lx.indent_stack))
    ELSE /\ lexer.last.k = "err"
         /\ lexer.last.e = "InconsistentIndentation"

\* a line has closed two blocks at once
TwoPopped ==
  /\ Dedenting
  /\ lexer.last.k = "tok"
  /\ Len(Before.indent_stack) - Len(lexer.lx.indent_stack) = 2

\* the offset of the end of the line that holds offset from
RECURSIVE LineEnd(_, _)
LineEnd(source, from) ==
  IF from >= Len(source) \/ source[from + 1] = "\n" THEN from
  ELSE LineEnd(source, from + 1)

\* the line at offset from is empty, whitespace or a comment
RECURSIVE Blank(_, _)
Blank(source, from) ==
  IF from >= Len(source) THEN TRUE
  ELSE IF source[from + 1] \in {"\n", "#"} THEN TRUE
  ELSE IF source[from + 1] \in {" ", "\t", "\r"} THEN Blank(source, from + 1)
  ELSE FALSE

LayoutKinds == {"Indent", "Dedent", "Newline"}

\* C15: an iteration of tokenize on a blank or comment-only line leaves the
\* indent stack as it is and pushes no Indent, Dedent or Newline token
BlankLinesSilent ==
  /\ lexer.last.k \in {"tok", "none", "err"}
  /\ Before.column = 1
  /\ Before.pos < Len(Before.source)
  /\ Blank(Before.source, Before.pos)
  => /\ lexer.lx.indent_stack = Before.indent_stack
     /\ \A i \in DOMAIN Pushed : Pushed[i].kind \notin LayoutKinds

\* the latest iteration ended in the error of a string literal that has no
\* closing quote on its line
StringLeftOpen ==
  \/ lexer.last.e = "UnterminatedString"
  \/ /\ lexer.last.e = "InvalidEscapeSequence"
     /\ lexer.lx.source[lexer.last.stop] = "\n"

\* C16: after the error of an unterminated string literal the lexer goes on
\* at the start of the next line, as it would after the line end of a
\* terminated string
StringErrorResumesAtNextLine ==
  StringLeftOpen /\ LineEnd(Before.source, Before.pos) < Len(Before.source)
  => /\ lexer.lx.pos = LineEnd(Before.source, Before.pos) + 1
     /\ lexer.lx.column = 1


\* ------------------------------------------------------------------------
\* Properties of the parser (specification ParseSpec)
\* ------------------------------------------------------------------------

\* C11: parse terminates with a finite error list: an iteration of its
\* loop that records a ParseError consumes at least one token
ParseErrorAdvances ==
  /\ parser.last.k = "stmt"
  /\ Len(parser.p.errors) > parser.last.errors
  => parser.p.pos > parser.last.pos

\* ------------------------------------------------------------------------
\* Properties of the expression parser (specification PrecSpec)
\* ------------------------------------------------------------------------

\* the precedence ladder, from loose to tight, over the operators of the
\* model
Ladder ==
  << {"Or"}, {"And"}, {"EqualEqual", "Less"}, {"DotDot", "DotDotEqual"},
     {"Pipe"}, {"Caret"}, {"Ampersand"}, {"LessLess"}, {"Plus", "Minus"},
     {"Star"}, {"StarStar"} >>

Rung(kind) == CHOOSE i \in DOMAIN Ladder : kind \in Ladder[i]

\* the operators of the parsed line `a op1 c op2 e`
FirstOp == parser.p.tokens[2].kind
SecondOp == parser.p.tokens[4].kind

\* the operands of a Binary or Range node
LeftOf(e) == IF e.k = "Range" THEN e.start ELSE e.left
RightOf(e) == IF e.k = "Range" THEN e.end ELSE e.right

\* (a op1 c) op2 e
GroupsLeft(e) ==
  /\ e.k \in {"Binary", "Range"}
  /\ LeftOf(e).k \in {"Binary", "Range"}
  /\ RightOf(e) = EIdent(<<"e">>)
  /\ LeftOf(LeftOf(e)) = EIdent(<<"a">>)
  /\ RightOf(LeftOf(e)) = EIdent(<<"c">>)

\* a op1 (c op2 e)
GroupsRight(e) ==
  /\ e.k \in {"Binary", "Range"}
  /\ RightOf(e).k \in {"Binary", "Range"}
  /\ LeftOf(e) = EIdent(<<"a">>)
  /\ LeftOf(RightOf(e)) = EIdent(<<"c">>)
  /\ RightOf(RightOf(e)) = EIdent(<<"e">>)

\* C22: `a op1 c op2 e` groups by the ladder: the tighter operator takes
\* c, two operators of one rung group to the left, and ** to the right
GroupsByLadder ==
  parser.done
  => /\ parser.p.errors = <<>>
     /\ Len(parser.stmts) = 1
     /\ parser.stmts[1].k = "Expr"
     /\ IF \/ Rung(FirstOp) < Rung(SecondOp)
           \/ FirstOp = "StarStar" /\ SecondOp = "StarStar"
        THEN GroupsRight(parser.stmts[1].e)
        ELSE GroupsLeft(parser.stmts[1].e)

====
